---- MODULE Spec2Model ----
(***************************************************************************)
(* Model of the hook scripts under src/hooks.  Every script is one short   *)
(* lived process: it reads one JSON message from stdin, evaluates it, may  *)
(* append to its own log file, writes to stdout / stderr and exits.        *)
(*                                                                         *)
(* Text is modelled over finite alphabets.  A file path is a record of its *)
(* directory components, stem and suffix; a text payload is a sequence of  *)
(* lines taken from a fixed set of concrete lines.  The result of a        *)
(* regular expression on a line is tabulated per pattern (re_search), the  *)
(* table being the result of Python's re on exactly that line.  No line of *)
(* the alphabet lets a pattern match across a line break.                  *)
(***************************************************************************)
EXTENDS Integers, Sequences, FiniteSets, TLC

VARIABLES
    guard,       \* the hook script this process runs
    pc,          \* "ready" before main() runs, "exited" after
    input,       \* the message read from stdin
    env,         \* what the process finds outside itself (log dir, tools, clock)
    stdout,      \* items written to the primary output stream
    stderr,      \* items written to the diagnostic stream
    exitStatus,  \* process exit status
    raised,      \* name of the exception that ended the process, or "none"
    logFile,     \* lines of the guard's log file
    result,      \* findings computed by the analysis (errors, warnings, info)
    earlier,     \* what the evaluations of the same action before this one gave
    calls,       \* the external commands main() has still to wait for, first the running one
    procs,       \* two processes of the guard run side by side: where each one is
    appended     \* the lines of the log file with the process that appended each

\* the two processes the host starts side by side
Procs == {1, 2}

\* a process that has not read its message yet
Idle == [pc |-> "ready", todo |-> <<>>]

vars ==
    <<guard, pc, input, env, stdout, stderr, exitStatus, raised, logFile, result, earlier,
      calls, procs, appended>>

\* Longest text payload, in lines.
MaxLines == 2

(***************************************************************************)
(* JSON values and Python's treatment of them                              *)
(***************************************************************************)
EmptyPath == [dirs |-> <<>>, stem |-> "", ext |-> ""]

MkPath(dirs, stem, ext) == [dirs |-> dirs, stem |-> stem, ext |-> ext]

\* a JSON field holding a path: absent, null, a number, or a string
PAbsent == [t |-> "absent", v |-> EmptyPath]
PNull == [t |-> "null", v |-> EmptyPath]
PNum == [t |-> "num", v |-> EmptyPath]
PStr(p) == [t |-> "str", v |-> p]

\* a JSON field holding text (content, command): the string is a sequence of lines
TAbsent == [t |-> "absent", v |-> <<>>]
TNull == [t |-> "null", v |-> <<>>]
TNum == [t |-> "num", v |-> <<>>]
TStr(lines) == [t |-> "str", v |-> lines]

\* dict.get(key, ""): the default only replaces a missing key
get(field, default) == IF field.t = "absent" THEN default ELSE field

\* Python truthiness of a field value: None and "" are falsy, a non-zero number is truthy
truthy_path(x) == x.t = "num" \/ (x.t = "str" /\ x.v # EmptyPath)

truthy_text(x) == x.t = "num" \/ (x.t = "str" /\ x.v # <<>>)

\* a or b
or_path(a, b) == IF truthy_path(a) THEN a ELSE b

or_text(a, b) == IF truthy_text(a) THEN a ELSE b

\* Path(p).name
name_of(p) == p.stem \o p.ext

\* "a/b/" in file_path, at the granularity of directory components
dirs_in(sub, p) ==
    \E i \in 0..(Len(p.dirs) - Len(sub)) :
        \A j \in 1..Len(sub) : p.dirs[i + j] = sub[j]

\* 'index.ts' in file_path (the alphabet has no other path that contains it)
has_index_ts(p) == name_of(p) = "index.ts"

SeqsUpTo(S, n) == UNION {[1..k -> S] : k \in 0..n}


(***************************************************************************)
(* Process outcomes                                                        *)
(***************************************************************************)
NoFindings == [errors |-> <<>>, warnings |-> <<>>, info |-> <<>>]

\* a line of text written to a stream: the severity list it was taken from, and its text
Item(sev, text) == [kind |-> "text", sev |-> sev, text |-> text]

\* a JSON object printed on stdout: its "decision" value ("" when the key is
\* missing), the lines of its "message" value and the keys it has
Verdict(decision, lines, keys) ==
    [kind |-> "json", decision |-> decision, lines |-> lines, keys |-> keys]

\* the JSON object that carries a rewritten tool input
Rewrite(query) == [kind |-> "rewrite", query |-> query]

\* a log line; stamped tells whether the line starts with a timestamp
LogLine(stamped, text) == [stamped |-> stamped, text |-> text]

\* a line that carries text taken from the output of an external command: size is
\* the number of characters taken
Excerpt(sev, text, size) == [kind |-> "text", sev |-> sev, text |-> text, size |-> size]

\* the lengths of s[:n] and of s[-n:] for a string s of length len
first_chars(n, len) == IF len > n THEN n ELSE len
last_chars(n, len) == IF len > n THEN n ELSE len

\* the lengths of the output of an external command that writes some: one below
\* every limit of the scripts, one above
ShortOutput == 40
LongOutput == 5000
OutputSizes == {ShortOutput, LongOutput}

Outcome(exit, out, err, log, exc, found) ==
    [exit |-> exit, stdout |-> out, stderr |-> err, log |-> log, raised |-> exc,
     findings |-> found]

\* sys.exit(0) with nothing written
Quiet == Outcome(0, <<>>, <<>>, <<>>, "none", NoFindings)

\* an uncaught exception: the interpreter prints the traceback on stderr and exits 1;
\* what was written before stays written
Uncaught(exc, out, err, log, found) ==
    Outcome(1, out, err \o <<Item("traceback", exc)>>, log, exc, found)

(***************************************************************************)
(* Regular expressions                                                     *)
(*                                                                         *)
(* re_lines(p) is the set of lines of the alphabet in which Python's       *)
(* re.search(p, line) finds a match, re_lines_i(p) the same under          *)
(* re.IGNORECASE.  Every pattern matches at most once in a line.           *)
(***************************************************************************)
re_lines(pattern) ==
    CASE pattern = "\\bDROP\\s+TABLE\\b" -> {"DROP TABLE accounts;"}
      [] pattern = "\\bTRUNCATE\\b" -> {"TRUNCATE logs;"}
      [] pattern = "\\bDROP\\s+COLUMN\\b" -> {"ALTER TABLE t DROP COLUMN c;"}
      [] pattern = "\\bDROP\\s+INDEX\\b" -> {"DROP INDEX old_idx;"}
      [] pattern = "\\.dropTable\\s*\\(" -> {"t.dropTable('x')"}
      [] pattern = "from\\s+[\\'\"]\\.\\.\\/\\.\\.\\/\\.\\.\\/packages\\/" -> {"import a from '../../../packages/db/x'"}
      [] pattern = "from\\s+[\\'\"]\\.\\.\\/\\.\\.\\/\\.\\.\\/lib\\/" -> {"import b from '../../../lib/util'"}
      [] pattern = "from\\s+[\\'\"]\\.\\.\\/.+\\/\\.\\.\\/.+\\/" -> {"import a from '../../../packages/db/x'", "import b from '../../../lib/util'"}
      [] pattern = "from\\s+[\\'\"]\\.+\\/node_modules\\/" -> {"import f from '../node_modules/y'"}
      [] pattern = "import\\s+\\*\\s+as\\s+\\w+\\s+from\\s+[\\'\"](?!\\@tabler)" -> {"import * as d from 'x'"}
      [] pattern = "from\\s+[\\'\"]src\\/lib\\/" -> {"import c from 'src/lib/c'"}
      [] pattern = "from\\s+[\\'\\\"]\\$app\\/stores[\\'\"]" -> {"import { page } from '$app/stores'"}
      [] pattern = "export\\s+const\\s+load\\s*=" -> {"export const load = async () => {}"}
      [] pattern = "import\\s+.*\\s+from\\s+[\\'\\\"]\\$app/stores[\\'\\\"]" -> {"import { page } from '$app/stores'"}
      [] pattern = "import\\s+.*\\s+from\\s+[\\'\\\"]\\$env/static/private[\\'\\\"]" -> {"import { KEY } from '$env/static/private'"}
      [] pattern = "sk_live_[a-zA-Z0-9]+" -> {"const k = 'sk_live_abc123'"}
      [] pattern = "password\\s*=\\s*['\\\"][^'\\\"]{8,}['\\\"]" -> {"password = 'hunter2hunter2'"}
      [] pattern = "rm\\s+-rf\\s+/(?!\\S)" -> {"rm -rf /"}
      [] pattern = "rm\\s+-rf\\s+~" -> {"sudo rm -rf ~"}
      [] pattern = "sudo\\s+rm" -> {"sudo rm -rf ~"}
      [] pattern = "DROP\\s+TABLE" -> {"DROP TABLE accounts;"}
      [] pattern = ">\\s*/etc/" -> {"echo hi > /etc/motd"}
      [] pattern = "import\\s+\\*\\s+as\\s+\\w+\\s+from" -> {"import * as x from 'y'"}
      [] pattern = "from\\s+['\\\"]lodash['\\\"]" -> {"import { a } from 'lodash'"}
      [] pattern = "from\\s+['\\\"]moment['\\\"]" -> {}
      [] pattern = "from\\s+['\\\"]@tabler/icons-svelte['\\\"](?!\\s*;)" -> {}
      [] pattern = "(?<!export\\s)const\\s+\\w+\\s*=\\s*\\$state\\([^)]*\\)\\s*;?\\s*$" -> {}
      [] pattern = "onMount\\([^)]*fetch\\(" -> {}
      [] OTHER -> {}

re_lines_i(pattern) ==
    CASE pattern = "\\bDROP\\s+TABLE\\b" -> {"DROP TABLE accounts;", "drop table accounts;"}
      [] pattern = "\\bTRUNCATE\\b" -> {"TRUNCATE logs;"}
      [] pattern = "\\bDROP\\s+COLUMN\\b" -> {"ALTER TABLE t DROP COLUMN c;"}
      [] pattern = "\\bDROP\\s+INDEX\\b" -> {"DROP INDEX old_idx;"}
      [] pattern = "\\.dropTable\\s*\\(" -> {"t.dropTable('x')"}
      [] pattern = "from\\s+[\\'\"]\\.\\.\\/\\.\\.\\/\\.\\.\\/packages\\/" -> {"import a from '../../../packages/db/x'"}
      [] pattern = "from\\s+[\\'\"]\\.\\.\\/\\.\\.\\/\\.\\.\\/lib\\/" -> {"import b from '../../../lib/util'"}
      [] pattern = "from\\s+[\\'\"]\\.\\.\\/.+\\/\\.\\.\\/.+\\/" -> {"import a from '../../../packages/db/x'", "import b from '../../../lib/util'"}
      [] pattern = "from\\s+[\\'\"]\\.+\\/node_modules\\/" -> {"import f from '../node_modules/y'"}
      [] pattern = "import\\s+\\*\\s+as\\s+\\w+\\s+from\\s+[\\'\"](?!\\@tabler)" -> {"import * as d from 'x'"}
      [] pattern = "from\\s+[\\'\"]src\\/lib\\/" -> {"import c from 'src/lib/c'"}
      [] pattern = "from\\s+[\\'\\\"]\\$app\\/stores[\\'\"]" -> {"import { page } from '$app/stores'"}
      [] pattern = "export\\s+const\\s+load\\s*=" -> {"export const load = async () => {}"}
      [] pattern = "import\\s+.*\\s+from\\s+[\\'\\\"]\\$app/stores[\\'\\\"]" -> {"import { page } from '$app/stores'"}
      [] pattern = "import\\s+.*\\s+from\\s+[\\'\\\"]\\$env/static/private[\\'\\\"]" -> {"import { KEY } from '$env/static/private'"}
      [] pattern = "sk_live_[a-zA-Z0-9]+" -> {"const k = 'sk_live_abc123'"}
      [] pattern = "password\\s*=\\s*['\\\"][^'\\\"]{8,}['\\\"]" -> {"password = 'hunter2hunter2'", "PASSWORD = 'hunter2hunter2'"}
      [] pattern = "rm\\s+-rf\\s+/(?!\\S)" -> {"rm -rf /"}
      [] pattern = "rm\\s+-rf\\s+~" -> {"sudo rm -rf ~"}
      [] pattern = "sudo\\s+rm" -> {"sudo rm -rf ~"}
      [] pattern = "DROP\\s+TABLE" -> {"DROP TABLE accounts;", "drop table accounts;"}
      [] pattern = ">\\s*/etc/" -> {"echo hi > /etc/motd"}
      [] OTHER -> {}

\* number of matches re.findall(pattern, content) returns
findall_count(pattern, lines, ignorecase) ==
    Cardinality({i \in 1..Len(lines) :
        lines[i] \in (IF ignorecase THEN re_lines_i(pattern) ELSE re_lines(pattern))})

\* bool(re.search(pattern, content))
re_search(pattern, lines, ignorecase) == findall_count(pattern, lines, ignorecase) > 0

\* the rules of a catalog whose pattern is found in the text, in catalog order
matching_rules(patterns, lines, ignorecase) ==
    SelectSeq(patterns, LAMBDA r : re_search(r.pattern, lines, ignorecase))

\* the messages of the rules of the sequence rules that satisfy the level test
messages_at(rules, levels) ==
    LET kept == SelectSeq(rules, LAMBDA r : r.level \in levels)
    IN  [i \in 1..Len(kept) |-> kept[i].message]

\* every element of a sequence of texts as a stream item of one severity
items(sev, texts) == [i \in 1..Len(texts) |-> Item(sev, texts[i])]

\* log(f"  {item}") for each item of a list
indented(texts) == [i \in 1..Len(texts) |-> LogLine(TRUE, "  " \o texts[i])]

(***************************************************************************)
(* The message on stdin                                                    *)
(***************************************************************************)
NAbsent == [t |-> "absent", v |-> ""]
NStr(s) == [t |-> "str", v |-> s]

\* a search query: a phrase followed by year numbers, as in "svelte guide 2024"
MkQuery(base, years) == [base |-> base, years |-> years]

EmptyQuery == MkQuery("", <<>>)

QAbsent == [t |-> "absent", v |-> EmptyQuery]
QNull == [t |-> "null", v |-> EmptyQuery]
QNum == [t |-> "num", v |-> EmptyQuery]
QStr(q) == [t |-> "str", v |-> q]

truthy_query(x) == x.t = "num" \/ (x.t = "str" /\ x.v # EmptyQuery)

\* json: "corrupt" (not JSON), "list" (valid JSON, not an object), "dict"
\* tool_input, tool_response: "absent", "null" or "dict"; the fields below them
\* are read only when they are "dict"
BaseMsg ==
    [json |-> "dict", tool_name |-> NStr("Write"), tool_input |-> "dict",
     file_path |-> PAbsent, path |-> PAbsent, content |-> TAbsent,
     new_string |-> TAbsent, command |-> TAbsent, query |-> QAbsent,
     tool_response |-> "absent", success |-> "absent", exitCode |-> "absent"]

\* messages that are not a JSON object at all
Malformed == {[BaseMsg EXCEPT !.json = j] : j \in {"corrupt", "list"}}

\* tool_input.get("file_path", "") or tool_input.get("path", "")
file_path_of(m) == or_path(get(m.file_path, PStr(EmptyPath)), get(m.path, PStr(EmptyPath)))

\* tool_input.get("content", "") or tool_input.get("new_string", "")
content_of(m) == or_text(get(m.content, TStr(<<>>)), get(m.new_string, TStr(<<>>)))

BadPaths == {PAbsent, PNull, PNum, PStr(EmptyPath)}

BadTexts == {TAbsent, TNull, TNum}

Texts(alphabet) == {TStr(c) : c \in SeqsUpTo(alphabet, MaxLines)}

(***************************************************************************)
(* What a process finds outside itself                                     *)
(*                                                                         *)
(* logOk: the log file can be opened for appending (and, where the script  *)
(* creates the log directory first, the directory can be created)          *)
(***************************************************************************)
NoEnv == [logOk |-> TRUE]

LogEnvs == [logOk : BOOLEAN]

(***************************************************************************)
(* drizzle-migration-guard.py                                              *)
(***************************************************************************)
DANGEROUS_PATTERNS == <<
    [pattern |-> "\\bDROP\\s+TABLE\\b", level |-> "error", message |-> "DROP TABLE detected - this will delete all data!"],
    [pattern |-> "\\bDROP\\s+SCHEMA\\b", level |-> "error", message |-> "DROP SCHEMA detected - this will delete entire schema!"],
    [pattern |-> "\\bTRUNCATE\\b", level |-> "error", message |-> "TRUNCATE detected - this will delete all rows!"],
    [pattern |-> "\\bDELETE\\s+FROM\\s+\\w+\\s*;", level |-> "error", message |-> "DELETE without WHERE - this will delete all rows!"],
    [pattern |-> "\\bDROP\\s+COLUMN\\b", level |-> "warn", message |-> "DROP COLUMN detected - data will be lost"],
    [pattern |-> "\\bALTER\\s+COLUMN\\s+\\w+\\s+SET\\s+DATA\\s+TYPE\\b", level |-> "warn", message |-> "Column type change - may cause data loss or errors"],
    [pattern |-> "\\bALTER\\s+TABLE\\s+\\w+\\s+ALTER\\s+COLUMN\\s+\\w+\\s+TYPE\\b", level |-> "warn", message |-> "Column type change - may cause data loss"],
    [pattern |-> "\\bDROP\\s+TYPE\\b", level |-> "warn", message |-> "DROP TYPE detected - ensure no columns use this type"],
    [pattern |-> "\\bDROP\\s+INDEX\\b", level |-> "info", message |-> "DROP INDEX - may affect query performance"],
    [pattern |-> "\\bDROP\\s+CONSTRAINT\\b", level |-> "warn", message |-> "DROP CONSTRAINT - may affect data integrity"],
    [pattern |-> "\\bSET\\s+NOT\\s+NULL\\b(?!.*DEFAULT)", level |-> "warn", message |-> "SET NOT NULL without DEFAULT - will fail if nulls exist"],
    [pattern |-> "\\bNOT\\s+NULL\\b(?!.*DEFAULT)(?!.*PRIMARY)", level |-> "info", message |-> "NOT NULL column - ensure default value or empty table"]
>>

SCHEMA_WARNINGS == <<
    [pattern |-> "\\.dropTable\\s*\\(", level |-> "error", message |-> "dropTable() in schema - generates DROP TABLE migration"],
    [pattern |-> "\\.dropColumn\\s*\\(", level |-> "warn", message |-> "dropColumn() - will generate DROP COLUMN migration"],
    [pattern |-> "\\.alterColumn\\s*\\([^)]+\\)\\.setDataType\\s*\\(", level |-> "warn", message |-> "setDataType() - may cause data loss"]
>>

MIGRATION_PATHS == {<<"migrations">>, <<"packages", "db", "migrations">>}

SCHEMA_PATHS == {<<"schema">>, <<"packages", "db", "schema">>}

is_migration_file(p) == p.ext = ".sql" /\ \E mp \in MIGRATION_PATHS : dirs_in(mp, p)

is_schema_file(p) ==
    p.ext = ".ts" /\ (\E sp \in SCHEMA_PATHS : dirs_in(sp, p)) /\ ~has_index_ts(p)

check_content(content, patterns) ==
    LET hits == matching_rules(patterns, content, TRUE)
    IN  [errors |-> messages_at(hits, {"error"}),
         warnings |-> messages_at(hits, {"warn"}),
         info |-> messages_at(hits, {"info"})]

\* re.match(r'^\d{4}_', name) on the file names of the alphabet
has_nnnn_prefix(name) == name \in {"0001_init.sql"}

check_migration_naming(p) ==
    IF ~has_nnnn_prefix(name_of(p))
    THEN <<"Migration naming: Expected format NNNN_name.sql, got " \o name_of(p)>>
    ELSE <<>>

drizzle_analyze_file(p, content) ==
    IF is_migration_file(p)
    THEN LET c == check_content(content, DANGEROUS_PATTERNS)
         IN  [errors |-> c.errors,
              warnings |-> c.warnings \o check_migration_naming(p),
              info |-> c.info, file_type |-> "migration"]
    ELSE IF is_schema_file(p)
    THEN LET c == check_content(content, SCHEMA_WARNINGS)
         IN  [errors |-> c.errors, warnings |-> c.warnings, info |-> c.info,
              file_type |-> "schema"]
    ELSE [errors |-> <<>>, warnings |-> <<>>, info |-> <<>>, file_type |-> "none"]

findings_of(r) == [errors |-> r.errors, warnings |-> r.warnings, info |-> r.info]

\* the lines main() appends to the log before it decides (lines 166-175)
drizzle_log_analysis(p, r) ==
    <<LogLine(TRUE, "Analyzing " \o r.file_type \o ": " \o name_of(p))>>
        \o indented(r.info) \o indented(r.warnings) \o indented(r.errors)

\* what main() prints when it blocks (lines 178-200)
drizzle_block_output(p, r) ==
    <<Item("header", "Drizzle Migration Guard: Dangerous operation detected!"),
      Item("header", "File: " \o name_of(p))>>
        \o items("error", r.errors)
        \o (IF r.warnings # <<>>
            THEN <<Item("header", "Additional warnings:")>> \o items("warn", r.warnings)
            ELSE <<>>)
        \o <<Item("hint", "If this is intentional:"),
             Item("hint", "Ensure you have a backup of the data"),
             Item("hint", "Consider using a data migration script first"),
             Item("hint", "Review with: pnpm db:studio")>>

\* what main() prints when it only warns (lines 204-221)
drizzle_warn_output(p, r) ==
    <<Item("header", "Drizzle Migration Guard: Risky operations detected"),
      Item("header", "File: " \o name_of(p))>>
        \o items("warn", r.warnings)
        \o <<Item("hint", "Recommendations:"),
             Item("hint", "Review the migration carefully before applying"),
             Item("hint", "Test on a development database first"),
             Item("hint", "Consider backup before pnpm db:migrate")>>

\* main() as it would be if it read its own log back: a file that drew warnings
\* before is refused the next time
drizzle_respond_escalating(p, r, e) ==
    LET f == findings_of(r)
        logged == drizzle_log_analysis(p, r)
        warned == \E i \in 1..Len(logFile) :
                        logFile[i].text = "Warnings issued but allowing operation"
    IN  IF ~e.logOk THEN Uncaught("OSError", <<>>, <<>>, <<>>, f)
        ELSE IF r.errors # <<>> \/ (r.warnings # <<>> /\ warned)
        THEN Outcome(2, <<>>, drizzle_block_output(p, r), logged, "none", f)
        ELSE IF r.warnings # <<>>
        THEN Outcome(0, <<>>, drizzle_warn_output(p, r),
                     logged \o <<LogLine(TRUE, "Warnings issued but allowing operation")>>,
                     "none", f)
        ELSE Outcome(0, <<>>, <<>>, logged, "none", f)

\* main() after the analysis (lines 165-224): it logs the result r, prints it and
\* exits; log() raises when the write fails
drizzle_respond(p, r, e) ==
    LET f == findings_of(r)
        logged == drizzle_log_analysis(p, r)
    IN  IF ~e.logOk THEN Uncaught("OSError", <<>>, <<>>, <<>>, f)
        ELSE IF r.errors # <<>>
        THEN Outcome(2, <<>>, drizzle_block_output(p, r), logged, "none", f)
        ELSE IF r.warnings # <<>>
        THEN Outcome(0, <<>>, drizzle_warn_output(p, r),
                     logged \o <<LogLine(TRUE, "Warnings issued but allowing operation")>>,
                     "none", f)
        ELSE Outcome(0, <<>>, <<>>, logged, "none", f)

\* main() from the analysis on (lines 163-224)
drizzle_decide(p, content, e) == drizzle_respond(p, drizzle_analyze_file(p, content), e)

drizzle_main(m, e) ==
    IF m.json = "corrupt" THEN Quiet
    ELSE IF m.json # "dict" THEN Uncaught("AttributeError", <<>>, <<>>, <<>>, NoFindings)
    ELSE IF m.tool_name.v \notin {"Write", "Edit", "MultiEdit"} THEN Quiet
    ELSE IF m.tool_input = "null"
    THEN Uncaught("AttributeError", <<>>, <<>>, <<>>, NoFindings)
    ELSE LET ti == IF m.tool_input = "dict" THEN m
                   ELSE BaseMsg
             file_path == file_path_of(ti)
             content == content_of(ti)
         IN  IF ~truthy_path(file_path) \/ ~truthy_text(content) THEN Quiet
             \* Path(5) raises TypeError
             ELSE IF file_path.t # "str"
             THEN Uncaught("TypeError", <<>>, <<>>, <<>>, NoFindings)
             ELSE IF ~(is_migration_file(file_path.v) \/ is_schema_file(file_path.v))
             THEN Quiet
             \* re.search(pattern, 5) raises TypeError
             ELSE IF content.t # "str"
             THEN Uncaught("TypeError", <<>>, <<>>, <<>>, NoFindings)
             ELSE drizzle_decide(file_path.v, content.v, e)

DrizzleLines ==
    {"DROP TABLE accounts;", "drop table accounts;", "TRUNCATE logs;", "ALTER TABLE t DROP COLUMN c;",
     "DROP INDEX old_idx;", "SELECT 1;", "t.dropTable('x')"}

DrizzlePaths ==
    {MkPath(<<"migrations">>, "0001_init", ".sql"),
     MkPath(<<"packages", "db", "migrations">>, "init", ".sql"),
     MkPath(<<"packages", "db", "schema">>, "users", ".ts"),
     MkPath(<<"schema">>, "index", ".ts"),
     MkPath(<<"src">>, "app", ".ts")}

\* messages for the guards of Write / Edit / MultiEdit payloads
EditInputs(tools, paths, alphabet) ==
    Malformed
    \cup {[BaseMsg EXCEPT !.tool_name = n, !.tool_input = ti] :
            n \in {NAbsent, NStr("Read")} \cup {NStr(t) : t \in tools},
            ti \in {"absent", "null"}}
    \cup {[BaseMsg EXCEPT !.tool_name = NStr(t), !.file_path = fp, !.content = c] :
            t \in tools \cup {"Read"},
            fp \in BadPaths \cup {PStr(p) : p \in paths},
            c \in BadTexts \cup Texts(alphabet)}
    \cup {[BaseMsg EXCEPT !.tool_name = NStr(t), !.path = PStr(p), !.new_string = c] :
            t \in tools, p \in paths, c \in Texts(alphabet)}

DrizzleInputs == EditInputs({"Write", "MultiEdit"}, DrizzlePaths, DrizzleLines)

(***************************************************************************)
(* import-path-validator.py                                                *)
(***************************************************************************)
IMPORT_PATTERNS == <<
    [pattern |-> "from\\s+[\\'\"]\\.\\.\\/\\.\\.\\/\\.\\.\\/packages\\/", level |-> "error", message |-> "Cross-package relative import detected. Use @dronelist/* package imports instead."],
    [pattern |-> "from\\s+[\\'\"]\\.\\.\\/\\.\\.\\/\\.\\.\\/apps\\/", level |-> "error", message |-> "Cross-app relative import detected. Use package imports instead."],
    [pattern |-> "from\\s+[\\'\"]\\.\\.\\/\\.\\.\\/\\.\\.\\/lib\\/", level |-> "warn", message |-> "Deep relative import to lib/. Consider using $lib alias."],
    [pattern |-> "from\\s+[\\'\"]\\.\\.\\/.+\\/\\.\\.\\/.+\\/", level |-> "warn", message |-> "Complex relative path detected. Consider using $lib alias for clarity."],
    [pattern |-> "from\\s+[\\'\"]\\.+\\/node_modules\\/", level |-> "error", message |-> "Relative import from node_modules. Import packages directly by name."],
    [pattern |-> "import\\s+\\*\\s+as\\s+\\w+\\s+from\\s+[\\'\"](?!\\@tabler)", level |-> "info", message |-> "Wildcard import may prevent tree-shaking. Prefer named imports."],
    [pattern |-> "from\\s+[\\'\"]src\\/lib\\/", level |-> "error", message |-> "Absolute path from src/. Use $lib alias instead."],
    [pattern |-> "from\\s+[\\'\"]\\/src\\/", level |-> "error", message |-> "Absolute path starting with /src/. Use $lib or relative imports."],
    [pattern |-> "from\\s+[\\'\"]lucide-svelte", level |-> "warn", message |-> "lucide-svelte detected. This project uses @tabler/icons-svelte."],
    [pattern |-> "from\\s+[\\'\\\"]\\$app\\/stores[\\'\"]", level |-> "warn", message |-> "$app/stores is deprecated in Svelte 5. Use $app/state instead."]
>>

RELEVANT_EXTENSIONS == {".ts", ".js", ".svelte", ".tsx", ".jsx"}

SVELTEKIT_PATHS == {<<"apps", "web">>, <<"apps", "marketing">>}

\* every file taken for a source file
is_relevant_file_always(p) == p.ext = p.ext

is_relevant_file(p) == p.ext \in RELEVANT_EXTENSIONS

is_sveltekit_context(p) == \E sp \in SVELTEKIT_PATHS : dirs_in(sp, p)

\* lines whose import path, as captured by r'from\s+[\'"](\.\.[\/\.].*?)[\'"]',
\* holds '..' three times or more
deep_relative_lines ==
    {"import a from '../../../packages/db/x'", "import b from '../../../lib/util'"}

\* '$lib' in message
mentions_lib(message) ==
    message \in {"Deep relative import to lib/. Consider using $lib alias.",
                 "Complex relative path detected. Consider using $lib alias for clarity.",
                 "Absolute path from src/. Use $lib alias instead.",
                 "Absolute path starting with /src/. Use $lib or relative imports."}

\* [message] * n
copies(n, message) == [i \in 1..n |-> message]

min(a, b) == IF a < b THEN a ELSE b

\* the loop over IMPORT_PATTERNS (lines 122-138): the first pattern that matches
\* reports its message once per match, up to three times, and ends the loop
first_import_hit(content) ==
    LET hits == matching_rules(IMPORT_PATTERNS, content, FALSE)
    IN  IF hits = <<>> THEN [level |-> "none", messages |-> <<>>]
        ELSE [level |-> hits[1].level,
              messages |-> copies(min(3, findall_count(hits[1].pattern, content, FALSE)),
                                  hits[1].message)]

check_imports(content, p) ==
    LET hit == first_import_hit(content)
        errors == IF hit.level = "error" THEN hit.messages ELSE <<>>
        warnings == IF hit.level = "warn" THEN hit.messages ELSE <<>>
        info == IF hit.level = "info" THEN hit.messages ELSE <<>>
        deep == Cardinality({i \in 1..Len(content) : content[i] \in deep_relative_lines})
        both == errors \o warnings
        extra ==
            IF is_sveltekit_context(p) /\ deep > 0
               /\ ~\E i \in 1..Len(both) : mentions_lib(both[i])
            THEN <<"Found " \o ToString(deep) \o " deep relative import(s). "
                     \o "Consider using $lib alias for maintainability.">>
            ELSE <<>>
    IN  [errors |-> errors, warnings |-> warnings \o extra, info |-> info]

import_analyze_file(p, content) ==
    IF ~is_relevant_file(p)
    THEN [errors |-> <<>>, warnings |-> <<>>, info |-> <<>>, file_type |-> "none"]
    ELSE LET c == check_imports(content, p)
         IN  [errors |-> c.errors, warnings |-> c.warnings, info |-> c.info,
              file_type |-> p.ext]

import_log_analysis(p, r) ==
    <<LogLine(TRUE, "Analyzing imports: " \o name_of(p))>>
        \o indented(r.info) \o indented(r.warnings) \o indented(r.errors)

import_block_output(p, r) ==
    <<Item("header", "Import Path Validator: Invalid imports detected!"),
      Item("header", "File: " \o name_of(p))>>
        \o items("error", r.errors)
        \o (IF r.warnings # <<>>
            THEN <<Item("header", "Additional warnings:")>> \o items("warn", r.warnings)
            ELSE <<>>)
        \o <<Item("hint", "Import conventions:"),
             Item("hint", "Use $lib/ for internal imports in SvelteKit apps"),
             Item("hint", "Use @dronelist/* for cross-package imports"),
             Item("hint", "Use package names directly for node_modules")>>

import_warn_output(p, r) ==
    <<Item("header", "Import Path Validator: Suggestions"),
      Item("header", "File: " \o name_of(p))>>
        \o items("warn", r.warnings)

\* main() after the analysis (lines 203-257)
import_respond(p, r, e) ==
    LET f == findings_of(r)
        logged == import_log_analysis(p, r)
    IN  IF ~e.logOk THEN Uncaught("OSError", <<>>, <<>>, <<>>, f)
        ELSE IF r.errors # <<>>
        THEN Outcome(2, <<>>, import_block_output(p, r), logged, "none", f)
        ELSE IF r.warnings # <<>>
        THEN Outcome(0, <<>>, import_warn_output(p, r),
                     logged \o <<LogLine(TRUE, "Warnings issued but allowing operation")>>,
                     "none", f)
        ELSE Outcome(0, <<>>, <<>>, logged, "none", f)

\* main() from the analysis on (lines 201-257)
import_decide(p, content, e) == import_respond(p, import_analyze_file(p, content), e)

import_main(m, e) ==
    IF m.json = "corrupt" THEN Quiet
    ELSE IF m.json # "dict" THEN Uncaught("AttributeError", <<>>, <<>>, <<>>, NoFindings)
    ELSE IF m.tool_name.v \notin {"Write", "Edit", "MultiEdit"} THEN Quiet
    ELSE IF m.tool_input = "null"
    THEN Uncaught("AttributeError", <<>>, <<>>, <<>>, NoFindings)
    ELSE LET ti == IF m.tool_input = "dict" THEN m ELSE BaseMsg
             file_path == file_path_of(ti)
             content == content_of(ti)
         IN  IF ~truthy_path(file_path) \/ ~truthy_text(content) THEN Quiet
             ELSE IF file_path.t # "str"
             THEN Uncaught("TypeError", <<>>, <<>>, <<>>, NoFindings)
             ELSE IF ~is_relevant_file(file_path.v) THEN Quiet
             \* re.findall(pattern, 5) raises TypeError
             ELSE IF content.t # "str"
             THEN Uncaught("TypeError", <<>>, <<>>, <<>>, NoFindings)
             ELSE import_decide(file_path.v, content.v, e)

ImportLines ==
    {"import a from '../../../packages/db/x'", "import b from '../../../lib/util'",
     "import c from 'src/lib/c'", "import * as d from 'x'", "import e from '$lib/e'",
     "import f from '../node_modules/y'"}

ImportPaths ==
    {MkPath(<<"apps", "web", "src", "lib">>, "a", ".ts"),
     MkPath(<<"packages", "db", "src">>, "b", ".ts"),
     MkPath(<<"docs">>, "notes", ".md")}

ImportInputs == EditInputs({"Write", "MultiEdit"}, ImportPaths, ImportLines)

(***************************************************************************)
(* sveltekit-route-validator.py                                            *)
(***************************************************************************)
\* re.search(pattern, file_path) for the paths of the alphabet
re_paths(pattern) ==
    CASE pattern = "/routes/.*/page\\.svelte$" ->
        {MkPath(<<"src", "routes", "about">>, "page", ".svelte")}
      [] pattern = "/routes/.*\\+pages\\.svelte$" ->
        {MkPath(<<"src", "routes", "about">>, "+pages", ".svelte")}
      [] pattern = "/routes/api/.*\\+page\\.svelte$" ->
        {MkPath(<<"src", "routes", "api", "items">>, "+page", ".svelte")}
      [] pattern = "\\+page\\.svelte$" ->
        {MkPath(<<"src", "routes", "about">>, "+page", ".svelte"),
         MkPath(<<"src", "routes", "api", "items">>, "+page", ".svelte")}
      [] pattern = "\\+page\\.ts$" ->
        {MkPath(<<"src", "routes", "[id">>, "+page", ".ts")}
      [] pattern = "\\.svelte$" ->
        {MkPath(<<"src", "routes", "about">>, "+page", ".svelte"),
         MkPath(<<"src", "routes", "about">>, "page", ".svelte"),
         MkPath(<<"src", "routes", "api", "items">>, "+page", ".svelte"),
         MkPath(<<"src", "lib">>, "Button", ".svelte"),
         MkPath(<<"src", "routes", "about">>, "+pages", ".svelte")}
      [] OTHER -> {}

VALID_ROUTE_FILES ==
    {"+page.svelte", "+page.ts", "+page.server.ts", "+layout.svelte", "+layout.ts",
     "+layout.server.ts", "+error.svelte", "+server.ts", "+server.js"}

ROUTE_DIR_PATTERNS ==
    {<<"src", "routes">>, <<"apps", "web", "src", "routes">>,
     <<"apps", "marketing", "src", "routes">>}

ROUTE_MISTAKES == <<
    [pattern |-> "/routes/.*/page\\.svelte$", level |-> "error", message |-> "Missing + prefix: should be +page.svelte"],
    [pattern |-> "/routes/.*/layout\\.svelte$", level |-> "error", message |-> "Missing + prefix: should be +layout.svelte"],
    [pattern |-> "/routes/.*/server\\.ts$", level |-> "error", message |-> "Missing + prefix: should be +server.ts"],
    [pattern |-> "/routes/.*/error\\.svelte$", level |-> "error", message |-> "Missing + prefix: should be +error.svelte"],
    [pattern |-> "/routes/.*__layout\\.svelte$", level |-> "error", message |-> "__layout.svelte is Svelte 3 syntax. Use +layout.svelte"],
    [pattern |-> "/routes/.*__error\\.svelte$", level |-> "error", message |-> "__error.svelte is Svelte 3 syntax. Use +error.svelte"],
    [pattern |-> "/routes/.*/index\\.svelte$", level |-> "error", message |-> "index.svelte is outdated. Use +page.svelte"],
    [pattern |-> "/routes/.*\\+pages\\.svelte$", level |-> "error", message |-> "Typo: +pages.svelte should be +page.svelte"],
    [pattern |-> "/routes/.*\\+layouts\\.svelte$", level |-> "error", message |-> "Typo: +layouts.svelte should be +layout.svelte"],
    [pattern |-> "/routes/.*\\+page\\.server\\.js$", level |-> "warn", message |-> "Using .js extension. Consider .ts for type safety"],
    [pattern |-> "/routes/api/.*\\+page\\.svelte$", level |-> "warn", message |-> "+page.svelte in api/ route. API routes typically use +server.ts only"]
>>

CONTENT_PATTERNS == <<
    [pattern |-> "export\\s+const\\s+load\\s*=", file_pattern |-> "\\+page\\.svelte$", level |-> "error", message |-> "load function in +page.svelte. Move to +page.ts or +page.server.ts"],
    [pattern |-> "export\\s+const\\s+actions\\s*=", file_pattern |-> "\\+page\\.svelte$", level |-> "error", message |-> "actions in +page.svelte. Move to +page.server.ts"],
    [pattern |-> "export\\s+const\\s+actions\\s*=", file_pattern |-> "\\+page\\.ts$", level |-> "error", message |-> "actions in +page.ts. Move to +page.server.ts (actions must be server-only)"],
    [pattern |-> "import\\s+.*\\s+from\\s+[\\'\\\"]\\$app/stores[\\'\\\"]", file_pattern |-> "\\.svelte$", level |-> "warn", message |-> "$app/stores is deprecated in Svelte 5. Use $app/state or props"],
    [pattern |-> "import\\s+.*\\s+from\\s+[\\'\\\"]\\$env/static/private[\\'\\\"]", file_pattern |-> "\\+page\\.svelte$", level |-> "error", message |-> "Private env import in +page.svelte. Use +page.server.ts for server secrets"],
    [pattern |-> "import\\s+.*\\s+from\\s+[\\'\\\"]@dronelist/db[\\'\\\"]", file_pattern |-> "\\+page\\.svelte$", level |-> "error", message |-> "Database import in +page.svelte. Use +page.server.ts for DB queries"]
>>

is_route_file(p) == \E rp \in ROUTE_DIR_PATTERNS : dirs_in(rp, p)

\* the directory components of the alphabet that hold a bracket, fail the
\* parameter syntax and have as many '[' as ']' or not
mismatched_parts == {"[id"}

spaced_parts == {}

\* path.parts, the file name included
parts_of(p) == p.dirs \o <<name_of(p)>>

validate_route_path(p) ==
    LET hits == SelectSeq(ROUTE_MISTAKES, LAMBDA r : p \in re_paths(r.pattern))
        parts == parts_of(p)
        bad == SelectSeq(parts, LAMBDA part : part \in mismatched_parts \cup spaced_parts)
        param_errors ==
            [i \in 1..Len(bad) |->
                IF bad[i] \in mismatched_parts
                THEN "Malformed route parameter: " \o bad[i] \o " (mismatched brackets)"
                ELSE "Spaces in route parameter: " \o bad[i]]
    IN  [errors |-> messages_at(hits, {"error"}) \o param_errors,
         warnings |-> messages_at(hits, {"warn"})]

\* filename.startswith('+'), on the file names of the alphabet
starts_with_plus(name) == name \in {"+page.svelte", "+page.ts", "+pages.svelte"}

\* no name of the alphabet starts with a valid name stripped of its dots (line 180)
check_file_naming(p) ==
    IF is_route_file(p) /\ starts_with_plus(name_of(p)) /\ name_of(p) \notin VALID_ROUTE_FILES
    THEN [errors |-> <<>>,
          warnings |-> <<"Unusual route file: " \o name_of(p) \o ". Expected one of: "
                           \o "+error.svelte, +layout.server.ts, +layout.svelte, "
                           \o "+layout.ts, +page.server.ts, +page.svelte, +page.ts, "
                           \o "+server.js, +server.ts">>]
    ELSE [errors |-> <<>>, warnings |-> <<>>]

\* the content patterns whose file pattern accepts the path; only these are searched
applicable_content_patterns(p) ==
    SelectSeq(CONTENT_PATTERNS, LAMBDA r : p \in re_paths(r.file_pattern))

validate_route_content(p, content) ==
    LET hits == matching_rules(applicable_content_patterns(p), content, FALSE)
    IN  [errors |-> messages_at(hits, {"error"}),
         warnings |-> messages_at(hits, {"warn", "info"})]

analyze_route(p, content) ==
    IF ~is_route_file(p) THEN [errors |-> <<>>, warnings |-> <<>>, is_route |-> FALSE]
    ELSE LET a == validate_route_path(p)
             b == check_file_naming(p)
             c == validate_route_content(p, content)
         IN  [errors |-> a.errors \o b.errors \o c.errors,
              warnings |-> a.warnings \o b.warnings \o c.warnings,
              is_route |-> TRUE]

\* str(file_path), for the block message that prints the whole path
RECURSIVE join_dirs(_)
join_dirs(dirs) == IF dirs = <<>> THEN "" ELSE Head(dirs) \o "/" \o join_dirs(Tail(dirs))

path_text(p) == join_dirs(p.dirs) \o name_of(p)

route_log_analysis(p, r) ==
    <<LogLine(TRUE, "Analyzing route: " \o name_of(p))>>
        \o indented(r.warnings) \o indented(r.errors)

\* the block message with the warnings moved in front of the errors; the severity
\* order must tell it from route_block_output
route_block_output_warnings_first(p, r) ==
    <<Item("header", "SvelteKit Route Validator: Issues detected!"),
      Item("header", "File: " \o path_text(p))>>
        \o items("warn", r.warnings)
        \o items("error", r.errors)

route_block_output(p, r) ==
    <<Item("header", "SvelteKit Route Validator: Issues detected!"),
      Item("header", "File: " \o path_text(p))>>
        \o items("error", r.errors)
        \o (IF r.warnings # <<>>
            THEN <<Item("header", "Additional warnings:")>> \o items("warn", r.warnings)
            ELSE <<>>)
        \o <<Item("hint", "SvelteKit conventions:"),
             Item("hint", "Use +page.svelte for page components"),
             Item("hint", "Use +page.server.ts for server-side load/actions"),
             Item("hint", "Use +layout.svelte for shared layouts"),
             Item("hint", "Use +server.ts for API endpoints")>>

route_warn_output(p, r) ==
    <<Item("header", "SvelteKit Route Validator: Suggestions"),
      Item("header", "File: " \o name_of(p))>>
        \o items("warn", r.warnings)

\* main() after the analysis (lines 242-293)
route_respond(p, r, e) ==
    LET f == [errors |-> r.errors, warnings |-> r.warnings, info |-> <<>>]
        logged == route_log_analysis(p, r)
    IN  IF ~e.logOk THEN Uncaught("OSError", <<>>, <<>>, <<>>, f)
        ELSE IF r.errors # <<>>
        THEN Outcome(2, <<>>, route_block_output(p, r), logged, "none", f)
        ELSE IF r.warnings # <<>>
        THEN Outcome(0, <<>>, route_warn_output(p, r),
                     logged \o <<LogLine(TRUE, "Warnings issued but allowing operation")>>,
                     "none", f)
        ELSE Outcome(0, <<>>, <<>>, logged, "none", f)

\* main() from the analysis on (lines 240-293)
route_decide(p, content, e) == route_respond(p, analyze_route(p, content), e)

route_main(m, e) ==
    IF m.json = "corrupt" THEN Quiet
    ELSE IF m.json # "dict" THEN Uncaught("AttributeError", <<>>, <<>>, <<>>, NoFindings)
    ELSE IF m.tool_name.v \notin {"Write", "Edit", "MultiEdit"} THEN Quiet
    ELSE IF m.tool_input = "null"
    THEN Uncaught("AttributeError", <<>>, <<>>, <<>>, NoFindings)
    ELSE LET ti == IF m.tool_input = "dict" THEN m ELSE BaseMsg
             file_path == file_path_of(ti)
             content == content_of(ti)
         IN  IF ~truthy_path(file_path) THEN Quiet
             \* 'src/routes/' in 5 raises TypeError
             ELSE IF file_path.t # "str"
             THEN Uncaught("TypeError", <<>>, <<>>, <<>>, NoFindings)
             ELSE IF ~is_route_file(file_path.v) THEN Quiet
             \* re.search(pattern, content) raises TypeError unless content is a
             \* string; it is reached when a file pattern accepts the path
             ELSE IF content.t # "str" /\ applicable_content_patterns(file_path.v) # <<>>
             THEN Uncaught("TypeError", <<>>, <<>>, <<>>, NoFindings)
             ELSE route_decide(file_path.v, content.v, e)

RouteLines ==
    {"export const load = async () => {}", "import { page } from '$app/stores'",
     "import { KEY } from '$env/static/private'", "<h1>hi</h1>"}

RoutePaths ==
    {MkPath(<<"src", "routes", "about">>, "+page", ".svelte"),
     MkPath(<<"src", "routes", "about">>, "page", ".svelte"),
     MkPath(<<"src", "routes", "api", "items">>, "+page", ".svelte"),
     MkPath(<<"src", "routes", "[id">>, "+page", ".ts"),
     MkPath(<<"src", "lib">>, "Button", ".svelte"),
     MkPath(<<"src", "routes", "about">>, "+pages", ".svelte")}

RouteInputs == EditInputs({"Write", "MultiEdit"}, RoutePaths, RouteLines)

(***************************************************************************)
(* no-secrets.py                                                           *)
(***************************************************************************)
SECRET_PATTERNS == <<
    [pattern |-> "sk_live_[a-zA-Z0-9]+", message |-> "Stripe live key detected"],
    [pattern |-> "sk-[a-zA-Z0-9]{48}", message |-> "OpenAI key detected"],
    [pattern |-> "supabase_service_role_key\\s*=\\s*['\\\"][^'\\\"]+['\\\"]", message |-> "Supabase service role key hardcoded"],
    [pattern |-> "SUPABASE_SERVICE_ROLE_KEY\\s*=\\s*['\\\"][^'\\\"]+['\\\"]", message |-> "Supabase service role key hardcoded"],
    [pattern |-> "eyJhbGciOiJIUzI1NiIsInR5cCI6IkpXVCJ9\\.[a-zA-Z0-9_-]+\\.[a-zA-Z0-9_-]+", message |-> "JWT token detected"],
    [pattern |-> "password\\s*=\\s*['\\\"][^'\\\"]{8,}['\\\"]", message |-> "Possible hardcoded password"]
>>

IGNORED_FILES == {".env.example", ".env.template", "README.md"}

\* any(ignored in file_path for ignored in IGNORED_FILES): the names of the
\* alphabet that contain an ignored name
is_ignored(p) == name_of(p) \in IGNORED_FILES \cup {"README.md.bak"}

\* the loop over SECRET_PATTERNS (lines 34-37): the first pattern found prints
\* its message and exits 2
secrets_scan(content) ==
    LET hits == matching_rules(SECRET_PATTERNS, content, FALSE)
    IN  IF hits = <<>> THEN Quiet
        ELSE Outcome(2, <<>>,
                     <<Item("error", hits[1].message \o " - use environment variables")>>,
                     <<>>, "none",
                     [errors |-> <<hits[1].message>>, warnings |-> <<>>, info |-> <<>>])

secrets_main(m, e) ==
    \* json.load is not guarded
    IF m.json = "corrupt" THEN Uncaught("JSONDecodeError", <<>>, <<>>, <<>>, NoFindings)
    ELSE IF m.json # "dict" THEN Uncaught("AttributeError", <<>>, <<>>, <<>>, NoFindings)
    ELSE IF m.tool_name.v \notin {"Write", "Edit"} THEN Quiet
    ELSE IF m.tool_input = "null"
    THEN Uncaught("AttributeError", <<>>, <<>>, <<>>, NoFindings)
    ELSE LET ti == IF m.tool_input = "dict" THEN m ELSE BaseMsg
             file_path == file_path_of(ti)
             content == content_of(ti)
         IN  \* ignored in 5, ignored in None raise TypeError
             IF file_path.t # "str"
             THEN Uncaught("TypeError", <<>>, <<>>, <<>>, NoFindings)
             ELSE IF is_ignored(file_path.v) THEN Quiet
             ELSE IF content.t # "str"
             THEN Uncaught("TypeError", <<>>, <<>>, <<>>, NoFindings)
             ELSE secrets_scan(content.v)

SecretLines ==
    {"const k = 'sk_live_abc123'", "password = 'hunter2hunter2'",
     "PASSWORD = 'hunter2hunter2'", "const x = 1"}

SecretPaths ==
    {MkPath(<<"src">>, "config", ".ts"),
     MkPath(<<>>, ".env", ".example"),
     MkPath(<<"docs">>, "README", ".md"),
     MkPath(<<"docs">>, "README.md", ".bak")}

SecretInputs == EditInputs({"Write", "Edit", "MultiEdit"}, SecretPaths, SecretLines)

(***************************************************************************)
(* permission-auto-approve.py                                              *)
(***************************************************************************)
SAFE_TOOLS ==
    {"Read", "Glob", "Grep", "LS", "Task", "WebSearch", "WebFetch",
     "mcp__svelte__list-sections", "mcp__svelte__get-documentation",
     "mcp__svelte__svelte-autofixer"}

PERMISSION_DANGEROUS_PATTERNS == <<
    [pattern |-> "rm\\s+-rf\\s+/(?!\\S)", message |-> "Dangerous: rm -rf on root"],
    [pattern |-> "rm\\s+-rf\\s+~", message |-> "Dangerous: rm -rf on home directory"],
    [pattern |-> "sudo\\s+rm", message |-> "Dangerous: sudo rm"],
    [pattern |-> "sudo\\s+chmod", message |-> "Dangerous: sudo chmod"],
    [pattern |-> "chmod\\s+777", message |-> "Dangerous: chmod 777 is insecure"],
    [pattern |-> ">\\s*/dev/sd[a-z]", message |-> "Dangerous: writing to disk device"],
    [pattern |-> ">\\s*/dev/null\\s*2>&1\\s*&", message |-> "Suspicious: silent background process"],
    [pattern |-> "curl\\s+[^|]*\\|\\s*(ba)?sh", message |-> "Dangerous: piping curl to shell"],
    [pattern |-> "wget\\s+[^|]*\\|\\s*(ba)?sh", message |-> "Dangerous: piping wget to shell"],
    [pattern |-> "DROP\\s+TABLE", message |-> "Dangerous: SQL DROP TABLE"],
    [pattern |-> "DROP\\s+DATABASE", message |-> "Dangerous: SQL DROP DATABASE"],
    [pattern |-> "DELETE\\s+FROM\\s+\\S+\\s*(;|$)", message |-> "Dangerous: DELETE without WHERE clause"],
    [pattern |-> "TRUNCATE\\s+TABLE", message |-> "Dangerous: TRUNCATE TABLE"],
    [pattern |-> ":\\(\\)\\s*\\{\\s*:\\|:&\\s*\\}", message |-> "Dangerous: fork bomb"],
    [pattern |-> "mkfs\\.", message |-> "Dangerous: filesystem formatting"],
    [pattern |-> "dd\\s+if=", message |-> "Dangerous: dd can destroy data"],
    [pattern |-> ">\\s*/etc/", message |-> "Dangerous: overwriting system config"],
    [pattern |-> "--no-preserve-root", message |-> "Dangerous: bypassing root protection"]
>>

is_safe_tool(tool_name) == tool_name \in SAFE_TOOLS

\* the commands of the alphabet that start with one of SAFE_BASH_PREFIXES
is_safe_bash_command(command) == command \in {<<"git status">>, <<"echo hi > /etc/motd">>}

\* the message of the last dangerous pattern found instead of the first
last_dangerous_pattern(command) ==
    LET hits == matching_rules(PERMISSION_DANGEROUS_PATTERNS, command, TRUE)
    IN  IF hits = <<>> THEN "" ELSE hits[Len(hits)].message

\* the dangerous patterns consulted only for commands without a safe prefix
check_dangerous_patterns_after_prefix(command) ==
    LET hits == matching_rules(PERMISSION_DANGEROUS_PATTERNS, command, TRUE)
    IN  IF is_safe_bash_command(command) \/ hits = <<>> THEN "" ELSE hits[1].message

\* the message of the first dangerous pattern found, "" for None
check_dangerous_patterns(command) ==
    LET hits == matching_rules(PERMISSION_DANGEROUS_PATTERNS, command, TRUE)
    IN  IF hits = <<>> THEN "" ELSE hits[1].message

Printed(out, found) == Outcome(0, out, <<>>, <<>>, "none", found)

permission_main(m, e) ==
    IF m.json = "corrupt"
    THEN Outcome(1, <<>>, <<Item("error", "Error: Invalid JSON input")>>, <<>>, "none",
                 NoFindings)
    ELSE IF m.json # "dict" THEN Uncaught("AttributeError", <<>>, <<>>, <<>>, NoFindings)
    ELSE IF is_safe_tool(m.tool_name.v)
    THEN Printed(<<Verdict("allow", <<>>, {"decision"})>>, NoFindings)
    ELSE IF m.tool_name.v # "Bash" THEN Quiet
    ELSE IF m.tool_input = "null"
    THEN Uncaught("AttributeError", <<>>, <<>>, <<>>, NoFindings)
    ELSE LET ti == IF m.tool_input = "dict" THEN m ELSE BaseMsg
             command == get(ti.command, TStr(<<>>))
         IN  \* re.search(pattern, None) and re.search(pattern, 5) raise TypeError
             IF command.t # "str"
             THEN Uncaught("TypeError", <<>>, <<>>, <<>>, NoFindings)
             ELSE LET danger_message == check_dangerous_patterns(command.v)
                  IN  IF danger_message # ""
                      THEN Printed(<<Verdict("deny", <<Item("error", danger_message)>>,
                                             {"decision", "message"})>>,
                                   [errors |-> <<danger_message>>, warnings |-> <<>>,
                                    info |-> <<>>])
                      ELSE IF is_safe_bash_command(command.v)
                      THEN Printed(<<Verdict("allow", <<>>, {"decision"})>>, NoFindings)
                      ELSE Quiet

Commands ==
    {<<"git status">>, <<"echo hi > /etc/motd">>, <<"sudo rm -rf ~">>, <<"npm install">>,
     <<"rm -rf /">>}

CommandInputs(tools, commands) ==
    Malformed
    \cup {[BaseMsg EXCEPT !.tool_name = n, !.tool_input = ti] :
            n \in {NAbsent} \cup {NStr(t) : t \in tools}, ti \in {"absent", "null"}}
    \cup {[BaseMsg EXCEPT !.tool_name = NStr(t), !.command = c] :
            t \in tools, c \in BadTexts \cup {TStr(<<>>)} \cup {TStr(c) : c \in commands}}

PermissionInputs == CommandInputs({"Bash", "Read", "Write"}, Commands)

(***************************************************************************)
(* supabase-rls-reminder.py                                                *)
(***************************************************************************)
PUBLIC_TABLES ==
    {"service_categories", "company_types", "countries", "states", "cities",
     "industries", "skills", "certifications", "subscription_plans", "feature_flags",
     "auth.users", "auth.sessions"}

\* re.findall of the CREATE TABLE pattern in a line: the table names, in order
migration_tables_in(line) ==
    CASE line = "CREATE TABLE users (id int, organization_id int);" -> <<"users">>
      [] line = "CREATE TABLE countries (id int);" -> <<"countries">>
      [] line = "CREATE TABLE invoices (id int);" -> <<"invoices">>
      [] OTHER -> <<>>

\* re.findall of the pgTable pattern in a line
schema_tables_in(line) ==
    CASE line = "export const users = pgTable('users', {" -> <<"users">>
      [] OTHER -> <<>>

\* the lines that hold one of MULTI_TENANT_INDICATORS
tenant_lines == {"CREATE TABLE users (id int, organization_id int);"}

\* the tables for which a line holds ALTER TABLE ... ENABLE ROW LEVEL SECURITY
rls_tables_in(line) ==
    IF line = "ALTER TABLE users ENABLE ROW LEVEL SECURITY;" THEN {"users"} ELSE {}

RECURSIVE flatten(_)
flatten(ss) == IF ss = <<>> THEN <<>> ELSE Head(ss) \o flatten(Tail(ss))

extract_table_name_from_schema(content) ==
    flatten([i \in 1..Len(content) |-> schema_tables_in(content[i])])

extract_table_name_from_migration(content) ==
    flatten([i \in 1..Len(content) |-> migration_tables_in(content[i])])

check_has_tenant_column(content) == \E i \in 1..Len(content) : content[i] \in tenant_lines

check_has_rls_statement(content, table) ==
    \E i \in 1..Len(content) : table \in rls_tables_in(content[i])

\* no table name of the alphabet starts with '_'
is_public_table(table) == table \in PUBLIC_TABLES

\* the table names of the alphabet that hold 'type', 'category', 'status' or 'config'
schema_exempt(table) == FALSE

\* the table names of the alphabet that hold one of the keywords of line 204
looks_tenant_owned(table) == table \in {"users", "invoices"}

analyze_schema_file(content) ==
    LET tables == extract_table_name_from_schema(content)
        has_tenant_col == check_has_tenant_column(content)
        info_of(t) ==
            IF ~is_public_table(t) /\ has_tenant_col
            THEN <<"Table '" \o t \o "' has tenant column - ensure RLS policies exist in Supabase">>
            ELSE <<>>
        warn_of(t) ==
            IF ~is_public_table(t) /\ ~has_tenant_col /\ ~schema_exempt(t)
            THEN <<"Table '" \o t \o "' may need organizationId for multi-tenant isolation">>
            ELSE <<>>
    IN  [warnings |-> flatten([i \in 1..Len(tables) |-> warn_of(tables[i])]),
         info |-> flatten([i \in 1..Len(tables) |-> info_of(tables[i])]),
         tables |-> tables]

analyze_migration_file(content) ==
    LET tables == extract_table_name_from_migration(content)
        has_tenant_col == check_has_tenant_column(content)
        has_rls(t) == check_has_rls_statement(content, t)
        warn_of(t) ==
            IF is_public_table(t) \/ has_rls(t) THEN <<>>
            ELSE IF has_tenant_col
            THEN <<"Table '" \o t \o "' has tenant column but no RLS enabled in this migration">>
            ELSE IF looks_tenant_owned(t)
            THEN <<"Table '" \o t \o "' may need RLS for data isolation">>
            ELSE <<>>
        info_of(t) ==
            IF ~is_public_table(t) /\ ~has_rls(t) /\ has_tenant_col
            THEN <<"Add: ALTER TABLE " \o t \o " ENABLE ROW LEVEL SECURITY;",
                   "Then create policies for SELECT, INSERT, UPDATE, DELETE">>
            ELSE <<>>
    IN  [warnings |-> flatten([i \in 1..Len(tables) |-> warn_of(tables[i])]),
         info |-> flatten([i \in 1..Len(tables) |-> info_of(tables[i])]),
         tables |-> tables]

\* the "message" value of the JSON response (lines 260-301)
rls_message(p, r) ==
    <<Item("header", "Supabase RLS Reminder"), Item("header", "File: " \o name_of(p))>>
        \o (IF r.warnings # <<>>
            THEN <<Item("header", "Warnings:")>> \o items("warn", r.warnings) ELSE <<>>)
        \o (IF r.info # <<>>
            THEN <<Item("header", "Info:")>> \o items("info", r.info) ELSE <<>>)
        \o (IF r.warnings # <<>>
            THEN <<Item("hint", "Resources:"), Item("hint", "Common RLS pattern:")>>
            ELSE <<>>)

\* main() from the analysis on (lines 233-306)
rls_decide(p, content, e) ==
    LET schema == is_schema_file(p)
        r == IF schema THEN analyze_schema_file(content) ELSE analyze_migration_file(content)
        f == [errors |-> <<>>, warnings |-> r.warnings, info |-> r.info]
        logged ==
            <<LogLine(TRUE, (IF schema THEN "Analyzing schema: " ELSE "Analyzing migration: ")
                              \o name_of(p))>>
                \o indented(r.info) \o indented(r.warnings)
    IN  IF ~e.logOk THEN Uncaught("OSError", <<>>, <<>>, <<>>, f)
        ELSE IF r.warnings # <<>> \/ r.info # <<>>
        THEN Outcome(0,
                     <<Verdict("continue", rls_message(p, r),
                               {"decision", "reason", "message"})>>,
                     <<>>,
                     logged \o <<LogLine(TRUE, "RLS reminder issued (JSON response)")>>,
                     "none", f)
        ELSE Outcome(0, <<>>, <<>>, logged, "none", f)

\* e.fstrings: the interpreter accepts a backslash inside an f-string expression
\* (line 293); an interpreter that does not rejects the whole file
rls_main(m, e) ==
    IF ~e.fstrings THEN Uncaught("SyntaxError", <<>>, <<>>, <<>>, NoFindings)
    ELSE IF m.json = "corrupt" THEN Quiet
    ELSE IF m.json # "dict" THEN Uncaught("AttributeError", <<>>, <<>>, <<>>, NoFindings)
    ELSE IF m.tool_name.v \notin {"Write", "Edit", "MultiEdit"} THEN Quiet
    ELSE IF m.tool_input = "null"
    THEN Uncaught("AttributeError", <<>>, <<>>, <<>>, NoFindings)
    ELSE LET ti == IF m.tool_input = "dict" THEN m ELSE BaseMsg
             file_path == file_path_of(ti)
             content == content_of(ti)
         IN  IF ~truthy_path(file_path) \/ ~truthy_text(content) THEN Quiet
             ELSE IF file_path.t # "str"
             THEN Uncaught("TypeError", <<>>, <<>>, <<>>, NoFindings)
             ELSE IF ~(is_schema_file(file_path.v) \/ is_migration_file(file_path.v))
             THEN Quiet
             ELSE IF content.t # "str"
             THEN Uncaught("TypeError", <<>>, <<>>, <<>>, NoFindings)
             ELSE rls_decide(file_path.v, content.v, e)

RlsLines ==
    {"CREATE TABLE users (id int, organization_id int);",
     "ALTER TABLE users ENABLE ROW LEVEL SECURITY;", "CREATE TABLE countries (id int);",
     "CREATE TABLE invoices (id int);", "export const users = pgTable('users', {"}

RlsPaths ==
    {MkPath(<<"migrations">>, "0001_init", ".sql"),
     MkPath(<<"packages", "db", "schema">>, "users", ".ts"),
     MkPath(<<"src">>, "app", ".ts")}

RlsInputs == EditInputs({"Write"}, RlsPaths, RlsLines)

RlsEnvs == [logOk : BOOLEAN, fstrings : BOOLEAN]

(***************************************************************************)
(* command-logger.py                                                       *)
(***************************************************************************)
\* every path of the alphabet is at most 50 characters long and every command
\* at most 80, so neither is shortened (lines 33, 40)
logger_details(file_path, command) ==
    (IF truthy_path(file_path) THEN <<"file=" \o path_text(file_path.v)>> ELSE <<>>)
        \o (IF truthy_text(command) THEN <<"cmd=" \o command.v[1]>> ELSE <<>>)

RECURSIVE join_details(_)
join_details(ds) ==
    IF ds = <<>> THEN "no details"
    ELSE IF Len(ds) = 1 THEN ds[1]
    ELSE ds[1] \o " | " \o join_details(Tail(ds))

logger_main(m, e) ==
    IF m.json = "corrupt" THEN Quiet
    ELSE IF m.json # "dict" THEN Uncaught("AttributeError", <<>>, <<>>, <<>>, NoFindings)
    ELSE IF m.tool_input = "null"
    THEN Uncaught("AttributeError", <<>>, <<>>, <<>>, NoFindings)
    ELSE LET ti == IF m.tool_input = "dict" THEN m ELSE BaseMsg
             tool_name == get(m.tool_name, NStr("Unknown")).v
             \* tool_input.get("file_path") or tool_input.get("path", "")
             file_path == or_path(IF ti.file_path.t = "absent" THEN PNull ELSE ti.file_path,
                                  get(ti.path, PStr(EmptyPath)))
             command == get(ti.command, TStr(<<>>))
         IN  \* Path(5) and len(5) raise TypeError
             IF file_path.t = "num" \/ command.t = "num"
             THEN Uncaught("TypeError", <<>>, <<>>, <<>>, NoFindings)
             \* open(LOG_FILE, "a") is not guarded and the directory is not created
             ELSE IF ~e.logOk THEN Uncaught("OSError", <<>>, <<>>, <<>>, NoFindings)
             ELSE Outcome(0, <<>>, <<>>,
                          <<LogLine(TRUE, tool_name \o ": "
                                            \o join_details(logger_details(file_path, command)))>>,
                          "none", NoFindings)

LoggerInputs ==
    CommandInputs({"Bash"}, Commands)
    \cup {[BaseMsg EXCEPT !.tool_name = NStr("Write"), !.file_path = fp] :
            fp \in BadPaths \cup {PStr(p) : p \in DrizzlePaths}}

(***************************************************************************)
(* web-search-enhancer.py                                                  *)
(***************************************************************************)
\* re.search(r'\b20[2-3]\d\b', query): no phrase of the alphabet holds a number
has_year(q) == \E i \in 1..Len(q.years) : q.years[i] >= 2020 /\ q.years[i] <= 2039

\* the phrases of the alphabet that hold one of TEMPORAL_KEYWORDS
temporal_phrases == {"latest svelte docs"}

\* '2024', '2025' and '2026' are themselves TEMPORAL_KEYWORDS
has_temporal_context(q) ==
    q.base \in temporal_phrases \/ \E i \in 1..Len(q.years) : q.years[i] \in {2024, 2025, 2026}

\* the phrases of the alphabet that hold one of TECH_KEYWORDS
tech_phrases == {"svelte 5 migration guide", "latest svelte docs"}

is_tech_query(q) == q.base \in tech_phrases

RECURSIVE years_text(_)
years_text(ys) == IF ys = <<>> THEN "" ELSE " " \o ToString(Head(ys)) \o years_text(Tail(ys))

query_text(q) == q.base \o years_text(q.years)

\* f"{query} {current_year}"
with_year(q, year) == MkQuery(q.base, q.years \o <<year>>)

\* the decision as it would be without the test for a technical keyword
should_add_year_any_topic(q) == ~has_year(q) /\ ~has_temporal_context(q)

should_add_year(q) == ~has_year(q) /\ ~has_temporal_context(q) /\ is_tech_query(q)

\* main() as it would be if it refused the search it rewrites
websearch_decide_refusing(q, e) ==
    IF ~e.logOk THEN Uncaught("OSError", <<>>, <<>>, <<>>, NoFindings)
    ELSE IF should_add_year(q)
    THEN Outcome(2, <<Rewrite(with_year(q, e.year))>>, <<>>,
                 <<LogLine(TRUE, "Enhanced: '" \o query_text(q) \o "' -> '"
                                   \o query_text(with_year(q, e.year)) \o "'")>>,
                 "none", NoFindings)
    ELSE Outcome(0, <<>>, <<>>,
                 <<LogLine(TRUE, "Unchanged: '" \o query_text(q) \o "'")>>,
                 "none", NoFindings)

\* main() from the decision on (lines 74-100); log() raises when the write fails
websearch_decide(q, e) ==
    IF should_add_year(q)
    THEN IF ~e.logOk THEN Uncaught("OSError", <<>>, <<>>, <<>>, NoFindings)
         ELSE Outcome(0, <<Rewrite(with_year(q, e.year))>>, <<>>,
                      <<LogLine(TRUE, "Enhanced: '" \o query_text(q) \o "' -> '"
                                        \o query_text(with_year(q, e.year)) \o "'")>>,
                      "none", NoFindings)
    ELSE IF ~e.logOk THEN Uncaught("OSError", <<>>, <<>>, <<>>, NoFindings)
         ELSE Outcome(0, <<>>, <<>>,
                      <<LogLine(TRUE, "Unchanged: '" \o query_text(q) \o "'")>>,
                      "none", NoFindings)

websearch_main(m, e) ==
    IF m.json = "corrupt" THEN Quiet
    ELSE IF m.json # "dict" THEN Uncaught("AttributeError", <<>>, <<>>, <<>>, NoFindings)
    ELSE IF m.tool_name.v # "WebSearch" THEN Quiet
    ELSE IF m.tool_input = "null"
    THEN Uncaught("AttributeError", <<>>, <<>>, <<>>, NoFindings)
    ELSE LET ti == IF m.tool_input = "dict" THEN m ELSE BaseMsg
             query == get(ti.query, QStr(EmptyQuery))
         IN  IF ~truthy_query(query) THEN Quiet
             \* re.search(pattern, 5) raises TypeError
             ELSE IF query.t # "str"
             THEN Uncaught("TypeError", <<>>, <<>>, <<>>, NoFindings)
             ELSE websearch_decide(query.v, e)

Phrases == {"svelte 5 migration guide", "latest svelte docs", "weather in paris"}

Queries == {MkQuery(b, ys) : b \in Phrases, ys \in SeqsUpTo({2019, 2024, 2027}, 1)}

WebSearchInputs ==
    Malformed
    \cup {[BaseMsg EXCEPT !.tool_name = n, !.tool_input = ti] :
            n \in {NAbsent, NStr("WebSearch"), NStr("Bash")}, ti \in {"absent", "null"}}
    \cup {[BaseMsg EXCEPT !.tool_name = NStr(t), !.query = q] :
            t \in {"WebSearch", "Bash"},
            q \in {QAbsent, QNull, QNum, QStr(EmptyQuery)} \cup {QStr(q) : q \in Queries}}

\* year: datetime.now().year
WebSearchEnvs == [logOk : BOOLEAN, year : {2026, 2027, 2040}]

(***************************************************************************)
(* Hooks that run after the tool                                           *)
(***************************************************************************)
\* the shapes of tool_response: success is "absent", "true" or "false";
\* exitCode is "absent", "zero" or "nonzero"
Responses ==
    {[tool_response |-> "absent", success |-> "absent", exitCode |-> "absent"],
     [tool_response |-> "null", success |-> "absent", exitCode |-> "absent"],
     [tool_response |-> "dict", success |-> "absent", exitCode |-> "absent"],
     [tool_response |-> "dict", success |-> "true", exitCode |-> "absent"],
     [tool_response |-> "dict", success |-> "false", exitCode |-> "absent"],
     [tool_response |-> "dict", success |-> "false", exitCode |-> "zero"],
     [tool_response |-> "dict", success |-> "true", exitCode |-> "nonzero"]}

WithResponse(msgs) ==
    {m \in msgs : m.json # "dict"}
    \cup {[m EXCEPT !.tool_response = r.tool_response, !.success = r.success,
                    !.exitCode = r.exitCode] :
            m \in {x \in msgs : x.json = "dict"}, r \in Responses}

PathInputs(tools, paths) ==
    Malformed
    \cup {[BaseMsg EXCEPT !.tool_name = n, !.tool_input = ti] :
            n \in {NAbsent, NStr("Read")} \cup {NStr(t) : t \in tools},
            ti \in {"absent", "null"}}
    \cup {[BaseMsg EXCEPT !.tool_name = NStr(t), !.file_path = fp] :
            t \in tools \cup {"Read"}, fp \in BadPaths \cup {PStr(p) : p \in paths}}
    \cup {[BaseMsg EXCEPT !.tool_name = NStr(t), !.path = PStr(p)] :
            t \in tools, p \in paths}

\* log() of sveltekit-perf-guard.py and dependency-audit.py, called once per line:
\* print(message), then append to the log file; the open is not guarded, so the
\* first call that cannot append has already printed its line when it raises
tee(exit, lines, e, found) ==
    IF lines = <<>> THEN Outcome(exit, <<>>, <<>>, <<>>, "none", found)
    ELSE IF ~e.logOk THEN Uncaught("OSError", <<lines[1]>>, <<>>, <<>>, found)
    ELSE Outcome(exit, lines, <<>>,
                 [i \in 1..Len(lines) |->
                    IF "size" \in DOMAIN lines[i]
                    THEN [stamped |-> FALSE, text |-> lines[i].text, size |-> lines[i].size]
                    ELSE LogLine(FALSE, lines[i].text)],
                 "none", found)

RECURSIVE sum(_)
sum(s) == IF s = <<>> THEN 0 ELSE Head(s) + sum(Tail(s))

(***************************************************************************)
(* sveltekit-perf-guard.py                                                 *)
(***************************************************************************)
BUNDLE_BUDGET_KB == 1000
CHUNK_BUDGET_KB == 100
FILE_SIZE_WARN_KB == 100
MAX_IMPORTS_WARN == 15

PERF_PATTERNS == <<
    [pattern |-> "import\\s+\\*\\s+as\\s+\\w+\\s+from", message |-> "Wildcard import detected - use named imports for better tree-shaking"],
    [pattern |-> "from\\s+['\\\"]lodash['\\\"]", message |-> "Full lodash import - use 'lodash-es' or specific imports like 'lodash-es/debounce'"],
    [pattern |-> "from\\s+['\\\"]moment['\\\"]", message |-> "Moment.js detected - consider date-fns or native Intl API for smaller bundle"],
    [pattern |-> "from\\s+['\\\"]@tabler/icons-svelte['\\\"](?!\\s*;)", message |-> "Importing from barrel - prefer '@tabler/icons-svelte/icons/IconName'"],
    [pattern |-> "(?<!export\\s)const\\s+\\w+\\s*=\\s*\\$state\\([^)]*\\)\\s*;?\\s*$", message |-> "Top-level $state outside component may cause issues"],
    [pattern |-> "onMount\\([^)]*fetch\\(", message |-> "Consider using +page.server.ts load function instead of onMount fetch"]
>>

\* the lines of the alphabet in which re.findall(r'^import\s+', ..., re.MULTILINE) matches
import_lines == {"import * as x from 'y'", "import { a } from 'lodash'"}

is_build_command(command) == command \in {<<"pnpm build">>}

\* "=" * 60
rule_line == Item("note", "============")

\* the lines for the five largest chunks (lines 120-124); sizes are in bytes
chunk_lines(chunks) ==
    [i \in 1..min(5, Len(chunks)) |->
        Item("note", (IF chunks[i] \div 1024 > CHUNK_BUDGET_KB THEN "over " ELSE "     ")
                        \o ToString(chunks[i] \div 1024) \o "KB  chunk" \o ToString(i) \o ".js")]

\* analyze_build(): the lines it logs and whether the budget holds
analyze_build(e) ==
    IF ~e.outputDir
    THEN [ok |-> TRUE, errors |-> <<>>,
          warnings |-> <<"No SvelteKit build output found. Run build first.">>,
          lines |-> <<Item("warn", "No SvelteKit build output found. Run build first.")>>]
    ELSE LET total_js_kb == sum(e.chunks) \div 1024
             budget_exceeded == total_js_kb > BUNDLE_BUDGET_KB
             remaining == BUNDLE_BUDGET_KB - total_js_kb
             large == {i \in 1..Len(e.chunks) : e.chunks[i] \div 1024 > CHUNK_BUDGET_KB}
             low == <<"Warning: Less than 50KB remaining in budget">>
             many == <<ToString(Cardinality(large)) \o " chunk(s) exceed "
                         \o ToString(CHUNK_BUDGET_KB) \o "KB limit">>
         IN  [ok |-> ~budget_exceeded,
              errors |-> IF budget_exceeded THEN <<"PERFORMANCE BUDGET EXCEEDED!">> ELSE <<>>,
              warnings |-> (IF ~budget_exceeded /\ remaining < 50 THEN low ELSE <<>>)
                             \o (IF large # {} THEN many ELSE <<>>),
              lines |->
                <<Item("note", "Performance Budget Guard: Analyzing output"),
                  Item("note", "Total JS bundle size: " \o ToString(total_js_kb) \o "KB")>>
                \o (IF budget_exceeded
                    THEN <<Item("error", "PERFORMANCE BUDGET EXCEEDED!"),
                           Item("note", "   Current: " \o ToString(total_js_kb) \o "KB"),
                           Item("note", "   Budget:  " \o ToString(BUNDLE_BUDGET_KB) \o "KB"),
                           Item("note", "   Overage: "
                                          \o ToString(total_js_kb - BUNDLE_BUDGET_KB) \o "KB")>>
                    ELSE <<Item("note", "Bundle within budget: " \o ToString(total_js_kb)
                                          \o "KB / " \o ToString(BUNDLE_BUDGET_KB) \o "KB"),
                           Item("note", "Remaining budget: " \o ToString(remaining) \o "KB")>>
                         \o (IF remaining < 50 THEN items("warn", low) ELSE <<>>))
                \o <<Item("note", "Largest chunks:")>>
                \o chunk_lines(e.chunks)
                \o (IF large # {}
                    THEN items("warn", many)
                         \o <<Item("hint", "Consider code splitting with dynamic imports")>>
                    ELSE <<>>)
                \o (IF budget_exceeded
                    THEN <<Item("hint", "Optimization recommendations:")>> ELSE <<>>)]

\* the text of the file on disk: its lines, written out `repeat` times
file_text(file) == flatten([i \in 1..file.repeat |-> file.lines])

\* analyze_file(): the lines it logs (lines 143-185)
perf_analyze_file(p, e) ==
    IF ~e.file.exists \/ p.ext \notin {".js", ".jsx", ".ts", ".tsx", ".svelte"}
       \/ dirs_in(<<"node_modules">>, p) \/ dirs_in(<<".svelte-kit">>, p)
    THEN [warnings |-> <<>>, lines |-> <<>>]
    ELSE LET file_size_kb == e.file.size \div 1024
             content == file_text(e.file)
             imports == Cardinality({i \in 1..Len(content) : content[i] \in import_lines})
             hits == matching_rules(PERF_PATTERNS, content, FALSE)
             found == [i \in 1..Len(hits) |-> hits[i].message]
             big == IF file_size_kb > FILE_SIZE_WARN_KB
                    THEN <<"Large file: " \o ToString(file_size_kb) \o "KB">> ELSE <<>>
             many == IF imports > MAX_IMPORTS_WARN
                     THEN <<"Many imports: " \o ToString(imports) \o " imports">> ELSE <<>>
         IN  [warnings |-> big \o many \o found,
              lines |->
                <<Item("note", "Performance check: " \o name_of(p))>>
                \o (IF big # <<>>
                    THEN items("warn", big)
                         \o <<Item("hint", "Consider splitting into smaller components")>>
                    ELSE <<>>)
                \o (IF many # <<>>
                    THEN items("warn", many)
                         \o <<Item("hint", "Consider consolidating or lazy loading")>>
                    ELSE <<>>)
                \o (IF found # <<>>
                    THEN <<Item("header", "Performance issues found:")>> \o items("warn", found)
                    ELSE <<>>)
                \o (IF found = <<>> /\ file_size_kb <= FILE_SIZE_WARN_KB
                    THEN <<Item("note", "No performance issues detected")>> ELSE <<>>)]

\* success = tool_response.get("success", True), overridden by exitCode == 0 when
\* tool_response has the key exitCode (lines 213-215)
perf_success(m) ==
    IF m.tool_response = "absent" THEN TRUE
    ELSE IF m.exitCode # "absent" THEN m.exitCode = "zero"
    ELSE m.success # "false"

perf_main(m, e) ==
    IF m.json = "corrupt" THEN Quiet
    ELSE IF m.json # "dict" \/ m.tool_response = "null"
    THEN Uncaught("AttributeError", <<>>, <<>>, <<>>, NoFindings)
    ELSE IF ~perf_success(m) THEN Quiet
    ELSE IF m.tool_name.v \notin {"Bash", "Write", "Edit", "MultiEdit"} THEN Quiet
    ELSE IF m.tool_input = "null"
    THEN Uncaught("AttributeError", <<>>, <<>>, <<>>, NoFindings)
    ELSE LET ti == IF m.tool_input = "dict" THEN m ELSE BaseMsg
             command == get(ti.command, TStr(<<>>))
             file_path == file_path_of(ti)
         IN  IF m.tool_name.v = "Bash"
             THEN \* re.search(p, None) and re.search(p, 5) raise TypeError
                  IF command.t # "str"
                  THEN Uncaught("TypeError", <<>>, <<>>, <<>>, NoFindings)
                  ELSE IF ~is_build_command(command.v) THEN Quiet
                  ELSE LET b == analyze_build(e)
                           f == [errors |-> b.errors, warnings |-> b.warnings, info |-> <<>>]
                           banner == <<rule_line,
                                       Item("note", "SvelteKit Build Completed - Running Performance Analysis"),
                                       rule_line>>
                       IN  tee(IF b.ok THEN 0 ELSE 2, banner \o b.lines \o <<rule_line>>,
                               e, f)
             ELSE IF ~truthy_path(file_path) THEN Quiet
             ELSE IF file_path.t # "str"
             THEN Uncaught("TypeError", <<>>, <<>>, <<>>, NoFindings)
             ELSE LET a == perf_analyze_file(file_path.v, e)
                  IN  tee(0, a.lines, e,
                          [errors |-> <<>>, warnings |-> a.warnings, info |-> <<>>])

PerfLines == {"import * as x from 'y'", "import { a } from 'lodash'", "const a = 1"}

PerfPaths ==
    {MkPath(<<"src">>, "app", ".ts"), MkPath(<<"node_modules", "x">>, "index", ".js"),
     MkPath(<<"docs">>, "README", ".md")}

NoFile == [exists |-> FALSE, size |-> 0, lines |-> <<>>, repeat |-> 1]

\* chunk sizes in bytes, largest first as get_js_files_sizes() sorts them
ChunkLists ==
    {<<>>, <<40960>>, <<122880, 40960>>, <<102912>>, <<983040>>, <<614400, 409600>>,
     <<614400, 410624>>}

BuildEnvs ==
    {[logOk |-> l, outputDir |-> d, chunks |-> c, file |-> NoFile] :
        l \in BOOLEAN, d \in BOOLEAN, c \in ChunkLists}

\* repeat lets a file of few distinct lines have more than MAX_IMPORTS_WARN imports
FileEnvs ==
    {[logOk |-> l, outputDir |-> FALSE, chunks |-> <<>>, file |-> f] :
        l \in BOOLEAN,
        f \in {NoFile}
              \cup [exists : {TRUE}, size : {2048, 153600},
                    lines : SeqsUpTo(PerfLines, MaxLines), repeat : {1, 8}]}

PerfBashInputs == WithResponse(CommandInputs({"Bash"}, {<<"pnpm build">>, <<"git status">>}))

PerfEditInputs == WithResponse(PathInputs({"Write"}, PerfPaths))

(***************************************************************************)
(* dependency-audit.py                                                     *)
(***************************************************************************)
\* file name -> [name, command]; every entry has exactly one command
DEPENDENCY_FILES ==
    [f \in {"package.json", "pnpm-lock.yaml", "requirements.txt", "Cargo.toml", "Gemfile"} |->
        CASE f = "package.json" -> [name |-> "pnpm/npm", cmd |-> "pnpm"]
          [] f = "pnpm-lock.yaml" -> [name |-> "pnpm", cmd |-> "pnpm"]
          [] f = "requirements.txt" -> [name |-> "pip", cmd |-> "safety"]
          [] f = "Cargo.toml" -> [name |-> "cargo", cmd |-> "cargo"]
          [] OTHER -> [name |-> "bundler", cmd |-> "bundle"]]

\* what subprocess.run does: "returned" (with a return code and captured output),
\* "timeout" (TimeoutExpired), "notfound" (FileNotFoundError), "error" (any other
\* exception)
RunOutcomes == {"returned", "timeout", "notfound", "error"}

\* the lines logged for the one audit command (lines 75-104); e.which is what
\* `which <cmd>` does, e.run what the audit command does
audit_lines(cmd, e) ==
    IF e.which = "notfound"
    THEN [printed |-> <<>>, logged |-> <<Item("warn", cmd \o " not found, skipping")>>]
    ELSE IF e.which = "missing"
    THEN [printed |-> <<Item("warn", cmd \o " not installed, skipping audit")>>,
          logged |-> <<>>]
    ELSE IF e.run = "notfound"
    THEN [printed |-> <<>>, logged |-> <<Item("warn", cmd \o " not found, skipping")>>]
    ELSE IF e.run = "timeout"
    THEN [printed |-> <<>>, logged |-> <<Item("warn", cmd \o " audit timed out")>>]
    ELSE IF e.run = "error"
    THEN [printed |-> <<>>, logged |-> <<Item("warn", "Error running " \o cmd)>>]
    ELSE [printed |-> <<>>,
          logged |->
            \* log(result.stdout), log(result.stderr): the whole output
            (IF e.out THEN <<Excerpt("report", "audit stdout", e.size)>> ELSE <<>>)
            \o (IF e.err THEN <<Excerpt("report", "audit stderr", e.size)>> ELSE <<>>)
            \o (IF e.returncode # 0
                THEN <<Item("warn", "Audit found issues (exit code "
                                      \o ToString(e.returncode) \o ")")>>
                ELSE <<Item("note", "No vulnerabilities found")>>)]

\* run_audit(): two log() calls, then the command; the "not installed" line is
\* printed without log(), after the two
run_audit(p, e) ==
    LET config == DEPENDENCY_FILES[name_of(p)]
        a == audit_lines(config.cmd, e)
        head == <<Item("note", "Dependency file modified: " \o path_text(p)),
                  Item("note", "Running " \o config.name \o " security audit...")>>
        found == [errors |-> <<>>,
                  warnings |-> IF e.which = "found" /\ e.run = "returned" /\ e.returncode # 0
                               THEN <<"Audit found issues">> ELSE <<>>,
                  info |-> <<>>]
        o == tee(0, head \o a.logged, e, found)
    IN  IF o.raised = "none" THEN [o EXCEPT !.stdout = @ \o a.printed] ELSE o

audit_main(m, e) ==
    IF m.json = "corrupt" THEN Quiet
    ELSE IF m.json # "dict" THEN Uncaught("AttributeError", <<>>, <<>>, <<>>, NoFindings)
    ELSE IF m.tool_name.v \notin {"Write", "Edit"} THEN Quiet
    ELSE IF m.tool_input = "null"
    THEN Uncaught("AttributeError", <<>>, <<>>, <<>>, NoFindings)
    ELSE LET ti == IF m.tool_input = "dict" THEN m ELSE BaseMsg
             file_path == file_path_of(ti)
         IN  IF ~truthy_path(file_path) THEN Quiet
             ELSE IF file_path.t # "str"
             THEN Uncaught("TypeError", <<>>, <<>>, <<>>, NoFindings)
             ELSE IF name_of(file_path.v) \notin DOMAIN DEPENDENCY_FILES THEN Quiet
             ELSE run_audit(file_path.v, e)

AuditPaths ==
    {MkPath(<<>>, "package", ".json"), MkPath(<<"api">>, "requirements", ".txt"),
     MkPath(<<"src">>, "app", ".ts")}

\* main() never reads tool_response; the write of package.json comes with every
\* shape of it
AuditInputs ==
    PathInputs({"Write", "MultiEdit"}, AuditPaths)
    \cup WithResponse({[BaseMsg EXCEPT !.file_path = PStr(MkPath(<<>>, "package", ".json"))]})

AuditEnvs ==
    {[logOk |-> l, which |-> w, run |-> "returned", returncode |-> 0, out |-> FALSE,
      err |-> FALSE, size |-> 0] : l \in BOOLEAN, w \in {"missing", "notfound"}}
    \cup {[logOk |-> l, which |-> "found", run |-> r, returncode |-> 0, out |-> FALSE,
           err |-> FALSE, size |-> 0] : l \in BOOLEAN, r \in RunOutcomes \ {"returned"}}
    \cup {e \in [logOk : BOOLEAN, which : {"found"}, run : {"returned"},
                  returncode : {0, 1}, out : BOOLEAN, err : BOOLEAN,
                  size : {0} \cup OutputSizes] :
            (e.size = 0) <=> (~e.out /\ ~e.err)}

(***************************************************************************)
(* auto-format.py                                                          *)
(***************************************************************************)
\* extension -> [check_cmd, name]
FORMATTERS ==
    [x \in {".js", ".jsx", ".ts", ".tsx", ".json", ".css", ".scss", ".html", ".md", ".yaml",
            ".yml", ".svelte", ".py", ".go", ".rs", ".php"} |->
        CASE x = ".py" -> [check_cmd |-> "black", name |-> "Black"]
          [] x = ".go" -> [check_cmd |-> "gofmt", name |-> "gofmt"]
          [] x = ".rs" -> [check_cmd |-> "rustfmt", name |-> "rustfmt"]
          [] x = ".php" -> [check_cmd |-> "php-cs-fixer", name |-> "php-cs-fixer"]
          [] OTHER -> [check_cmd |-> "prettier", name |-> "Prettier"]]

\* the paths of the alphabet that hold one of SKIP_PATTERNS
should_skip(p) == dirs_in(<<"node_modules">>, p)

\* format_file(): the lines it logs (lines 76-122); e.stderrError: the formatter's
\* stderr holds "error"
format_file(p, e) ==
    IF ~e.exists THEN <<>>
    ELSE IF should_skip(p) THEN <<"Skipped (excluded path): " \o name_of(p)>>
    ELSE IF p.ext \notin DOMAIN FORMATTERS THEN <<>>
    ELSE LET fm == FORMATTERS[p.ext]
         IN  IF ~e.installed /\ fm.check_cmd # "prettier"
             THEN <<fm.name \o " not installed, skipping format for " \o name_of(p)>>
             ELSE IF e.run = "timeout" THEN <<fm.name \o " timeout for " \o name_of(p)>>
             ELSE IF e.run = "notfound" THEN <<fm.name \o " not found">>
             ELSE IF e.run = "error" THEN <<"Error formatting " \o name_of(p)>>
             ELSE IF e.returncode = 0
             THEN <<"Formatted with " \o fm.name \o ": " \o name_of(p)>>
             ELSE IF e.stderrError THEN <<fm.name \o " warning for " \o name_of(p)>>
             ELSE <<>>

\* format_file() logs result.stderr[:100] (lines 113-115)
stderr_logged(p, e) ==
    /\ e.exists /\ ~should_skip(p) /\ p.ext \in DOMAIN FORMATTERS
    /\ e.installed \/ FORMATTERS[p.ext].check_cmd = "prettier"
    /\ e.run = "returned" /\ e.returncode # 0 /\ e.stderrError

format_main(m, e) ==
    IF m.json = "corrupt" THEN Quiet
    ELSE IF m.json # "dict" THEN Uncaught("AttributeError", <<>>, <<>>, <<>>, NoFindings)
    ELSE IF m.tool_name.v \notin {"Edit", "MultiEdit", "Write"} THEN Quiet
    ELSE IF m.tool_response = "null"
    THEN Uncaught("AttributeError", <<>>, <<>>, <<>>, NoFindings)
    \* success = tool_response.get("success", True); exitCode is not read
    ELSE IF m.tool_response = "dict" /\ m.success = "false" THEN Quiet
    ELSE IF m.tool_input = "null"
    THEN Uncaught("AttributeError", <<>>, <<>>, <<>>, NoFindings)
    ELSE LET ti == IF m.tool_input = "dict" THEN m ELSE BaseMsg
             file_path == file_path_of(ti)
         IN  IF ~truthy_path(file_path) THEN Quiet
             ELSE IF file_path.t # "str"
             THEN Uncaught("TypeError", <<>>, <<>>, <<>>, NoFindings)
             ELSE LET lines == format_file(file_path.v, e)
                  IN  IF lines = <<>> THEN Quiet
                      \* log() raises; inside the try block the handler logs again
                      ELSE IF ~e.logOk
                      THEN Uncaught("OSError", <<>>, <<>>, <<>>, NoFindings)
                      ELSE Outcome(0, <<>>, <<>>,
                                   [i \in 1..Len(lines) |->
                                      IF stderr_logged(file_path.v, e)
                                      THEN [stamped |-> FALSE, text |-> lines[i],
                                            size |-> first_chars(100, e.size)]
                                      ELSE LogLine(FALSE, lines[i])],
                                   "none", NoFindings)

FormatPaths ==
    {MkPath(<<"src">>, "app", ".ts"), MkPath(<<"scripts">>, "tool", ".py"),
     MkPath(<<"node_modules", "x">>, "index", ".js"), MkPath(<<"notes">>, "todo", ".txt")}

FormatInputs == WithResponse(PathInputs({"Write"}, FormatPaths))

FormatEnvs ==
    {[logOk |-> l, exists |-> FALSE, installed |-> FALSE, run |-> "returned",
      returncode |-> 0, stderrError |-> FALSE, size |-> 0] : l \in BOOLEAN}
    \cup {[logOk |-> l, exists |-> TRUE, installed |-> i, run |-> r, returncode |-> 0,
           stderrError |-> FALSE, size |-> 0] :
            l \in BOOLEAN, i \in BOOLEAN, r \in RunOutcomes}
    \cup {e \in [logOk : BOOLEAN, exists : {TRUE}, installed : {TRUE}, run : {"returned"},
                  returncode : {1}, stderrError : BOOLEAN, size : {0} \cup OutputSizes] :
            (e.size = 0) <=> ~e.stderrError}

(***************************************************************************)
(* stop-verification.py                                                    *)
(***************************************************************************)
CheckNames == {"TypeScript", "Svelte", "Python (mypy)", "Rust"}

\* run_check(): the result dictionary, as far as format_results reads it
run_check(name, timeout, r) ==
    CASE r.run = "timeout" ->
            [name |-> name, success |-> FALSE,
             error |-> "Timeout after " \o ToString(timeout) \o "s", stderr |-> FALSE,
             returncode |-> 0, size |-> 0]
      [] r.run = "notfound" ->
            [name |-> name, success |-> FALSE, error |-> "Command not found",
             stderr |-> FALSE, returncode |-> 0, size |-> 0]
      [] r.run = "error" ->
            [name |-> name, success |-> FALSE, error |-> "OSError", stderr |-> FALSE,
             returncode |-> 0, size |-> 0]
      [] OTHER ->
            \* "stderr": result.stderr[-500:]
            [name |-> name, success |-> r.returncode = 0, error |-> "",
             stderr |-> r.stderr, returncode |-> r.returncode,
             size |-> last_chars(500, r.size)]

\* run_verifications(): e.checks is what detect_project_type found, e.ran[c] what
\* the command of check c did
run_verifications(e) ==
    LET one(key, name, timeout) ==
            IF key \in e.checks
            THEN LET res == run_check(name, timeout, e.ran[name])
                 IN  IF key = "python" /\ res.error = "Command not found" THEN <<>>
                     ELSE <<res>>
            ELSE <<>>
    IN  one("typescript", "TypeScript", 90) \o one("svelte", "Svelte", 90)
            \o one("python", "Python (mypy)", 60) \o one("rust", "Rust", 120)

result_line(res) ==
    IF res.success THEN Item("note", res.name \o ": passed")
    ELSE IF res.error # "" THEN Item("error", res.name \o ": " \o res.error)
    \* stderr.strip().split('\n')[0][:80]; the longest first line is the whole text
    ELSE IF res.stderr
    THEN Excerpt("error", res.name \o ": first line of stderr", first_chars(80, res.size))
    ELSE Item("error", res.name \o ": failed (exit " \o ToString(res.returncode) \o ")")

format_results(results) ==
    IF results = <<>> THEN <<>>
    ELSE LET all_passed == \A i \in 1..Len(results) : results[i].success
         IN  <<Item("header", "")>>
                \o <<IF all_passed THEN Item("header", "All checks passed!")
                     ELSE Item("header", "Some checks failed - review before committing")>>
                \o <<Item("header", "Verification Results:")>>
                \o [i \in 1..Len(results) |-> result_line(results[i])]

\* the message on stdin is parsed and never read: corrupt JSON becomes {}
stop_main(m, e) ==
    IF ~e.root \/ e.checks = {} THEN Quiet
    ELSE LET results == run_verifications(e)
             output == format_results(results)
             failed == SelectSeq(results, LAMBDA r : ~r.success)
             found == [errors |-> [i \in 1..Len(failed) |-> result_line(failed[i]).text],
                       warnings |-> <<>>, info |-> <<>>]
         IN  IF output # <<>> /\ failed # <<>>
             THEN Outcome(1, <<>>, output, <<>>, "none", found)
             ELSE Outcome(0, <<>>, output, <<>>, "none", found)

StopInputs == Malformed \cup {BaseMsg}

Projects ==
    {{}, {"eslint"}, {"typescript"}, {"typescript", "svelte"}, {"python"}, {"rust"}}

\* the name of the check each project marker enables; eslint enables none
check_of(key) ==
    CASE key = "typescript" -> "TypeScript"
      [] key = "svelte" -> "Svelte"
      [] key = "python" -> "Python (mypy)"
      [] key = "rust" -> "Rust"
      [] OTHER -> ""

NotRun == [run |-> "notrun", returncode |-> 0, stderr |-> FALSE, size |-> 0]

Ran ==
    {[run |-> r, returncode |-> 0, stderr |-> FALSE, size |-> 0] : r \in RunOutcomes}
    \cup {r \in [run : {"returned"}, returncode : {1}, stderr : BOOLEAN,
                  size : {0} \cup OutputSizes] : (r.size = 0) <=> ~r.stderr}

StopEnvs ==
    {[logOk |-> TRUE, root |-> FALSE, checks |-> {}, ran |-> [c \in CheckNames |-> NotRun]]}
    \cup UNION {{[logOk |-> TRUE, root |-> TRUE, checks |-> p, ran |-> ran] :
                    ran \in {f \in [CheckNames -> Ran \cup {NotRun}] :
                                \A c \in CheckNames :
                                    (f[c] # NotRun) <=> (\E k \in p : check_of(k) = c)}} :
                 p \in Projects}

(***************************************************************************)
(* The process                                                             *)
(***************************************************************************)
Guards ==
    {"drizzle-migration-guard", "import-path-validator", "sveltekit-route-validator",
     "no-secrets", "permission-auto-approve", "supabase-rls-reminder", "command-logger",
     "web-search-enhancer", "sveltekit-perf-guard", "dependency-audit", "auto-format",
     "stop-verification"}

Init ==
    /\ guard \in Guards
    /\ pc = "ready"
    /\ input = BaseMsg
    /\ env = NoEnv
    /\ stdout = <<>>
    /\ stderr = <<>>
    /\ exitStatus = 0
    /\ raised = "none"
    /\ logFile = <<>>
    /\ result = NoFindings
    /\ earlier = <<>>
    /\ calls = <<>>
    /\ procs = [p \in Procs |-> Idle]
    /\ appended = <<>>

\* the process runs main() on message m in environment e and exits with outcome o
Run(m, e, o) ==
    /\ pc = "ready"
    /\ pc' = "exited"
    /\ input' = m
    /\ env' = e
    /\ stdout' = o.stdout
    /\ stderr' = o.stderr
    /\ exitStatus' = o.exit
    /\ raised' = o.raised
    /\ logFile' = logFile \o o.log
    /\ result' = o.findings
    /\ UNCHANGED <<guard, earlier, calls, procs, appended>>

DrizzleMigrationGuard ==
    /\ guard = "drizzle-migration-guard"
    /\ pc = "ready"
    /\ \E m \in DrizzleInputs, e \in LogEnvs : Run(m, e, drizzle_main(m, e))

ImportPathValidator ==
    /\ guard = "import-path-validator"
    /\ pc = "ready"
    /\ \E m \in ImportInputs, e \in LogEnvs : Run(m, e, import_main(m, e))

SvelteKitRouteValidator ==
    /\ guard = "sveltekit-route-validator"
    /\ pc = "ready"
    /\ \E m \in RouteInputs, e \in LogEnvs : Run(m, e, route_main(m, e))

NoSecrets ==
    /\ guard = "no-secrets"
    /\ pc = "ready"
    /\ \E m \in SecretInputs : Run(m, NoEnv, secrets_main(m, NoEnv))

PermissionAutoApprove ==
    /\ guard = "permission-auto-approve"
    /\ pc = "ready"
    /\ \E m \in PermissionInputs : Run(m, NoEnv, permission_main(m, NoEnv))

SupabaseRlsReminder ==
    /\ guard = "supabase-rls-reminder"
    /\ pc = "ready"
    /\ \E m \in RlsInputs, e \in RlsEnvs : Run(m, e, rls_main(m, e))

CommandLogger ==
    /\ guard = "command-logger"
    /\ pc = "ready"
    /\ \E m \in LoggerInputs, e \in LogEnvs : Run(m, e, logger_main(m, e))

WebSearchEnhancer ==
    /\ guard = "web-search-enhancer"
    /\ pc = "ready"
    /\ \E m \in WebSearchInputs, e \in WebSearchEnvs : Run(m, e, websearch_main(m, e))

\* a build command or a file edit; each reads its own part of the environment
SvelteKitPerfGuard ==
    /\ guard = "sveltekit-perf-guard"
    /\ pc = "ready"
    /\ \/ \E m \in PerfBashInputs, e \in BuildEnvs : Run(m, e, perf_main(m, e))
       \/ \E m \in PerfEditInputs, e \in FileEnvs : Run(m, e, perf_main(m, e))

DependencyAudit ==
    /\ guard = "dependency-audit"
    /\ pc = "ready"
    /\ \E m \in AuditInputs, e \in AuditEnvs : Run(m, e, audit_main(m, e))

AutoFormat ==
    /\ guard = "auto-format"
    /\ pc = "ready"
    /\ \E m \in FormatInputs, e \in FormatEnvs : Run(m, e, format_main(m, e))

StopVerification ==
    /\ guard = "stop-verification"
    /\ pc = "ready"
    /\ \E m \in StopInputs, e \in StopEnvs : Run(m, e, stop_main(m, e))

Next ==
    \/ DrizzleMigrationGuard
    \/ ImportPathValidator
    \/ SvelteKitRouteValidator
    \/ NoSecrets
    \/ PermissionAutoApprove
    \/ SupabaseRlsReminder
    \/ CommandLogger
    \/ WebSearchEnhancer
    \/ SvelteKitPerfGuard
    \/ DependencyAudit
    \/ AutoFormat
    \/ StopVerification

Spec == Init /\ [][Next]_vars

(***************************************************************************)
(* What the emitted output says                                            *)
(***************************************************************************)
Exited == pc = "exited"

\* the hook event each script is written for, from its docstring; no-secrets.py
\* names none and inspects the content a Write or Edit is about to write
hook_event(g) ==
    CASE g \in {"drizzle-migration-guard", "import-path-validator",
                "sveltekit-route-validator", "no-secrets", "supabase-rls-reminder",
                "command-logger", "web-search-enhancer"} -> "PreToolUse"
      [] g = "permission-auto-approve" -> "PermissionRequest"
      [] g \in {"sveltekit-perf-guard", "dependency-audit", "auto-format"} -> "PostToolUse"
      [] OTHER -> "Stop"

\* the scripts that answer with a JSON object on stdout
StructuredGuards == {"permission-auto-approve", "supabase-rls-reminder", "web-search-enhancer"}

\* the scripts that answer with their exit status and text
ExitStatusGuards == Guards \ StructuredGuards

\* the scripts that only remind, record or rewrite
ReminderGuards == {"supabase-rls-reminder", "command-logger", "web-search-enhancer"}

\* the scripts that run before the action and have a path that refuses it
blocking_capable(g) ==
    hook_event(g) \in {"PreToolUse", "PermissionRequest"} /\ g \notin ReminderGuards

\* a JSON verdict "deny" was printed
Denied ==
    \E i \in 1..Len(stdout) : stdout[i].kind = "json" /\ stdout[i].decision = "deny"

Blocked == exitStatus = 2 \/ Denied

\* a JSON object with a modified tool input was printed
Rewritten == \E i \in 1..Len(stdout) : stdout[i].kind = "rewrite"

\* the message lines a stream carries: its text items and the lines of the
\* "message" value of its JSON verdicts
emitted_items(stream) ==
    flatten([i \in 1..Len(stream) |->
                CASE stream[i].kind = "text" -> <<stream[i]>>
                  [] stream[i].kind = "json" -> stream[i].lines
                  [] OTHER -> <<>>])

texts(its) == {its[i].text : i \in 1..Len(its)}

\* a printed line carries a rule's message: as it is, or with the suffix
\* no-secrets.py appends (line 36)
carried(message, lines) ==
    message \in lines \/ (message \o " - use environment variables") \in lines

range(s) == {s[i] : i \in 1..Len(s)}

\* the log file can be written and the interpreter accepts the script
Healthy == env.logOk /\ ("fstrings" \in DOMAIN env => env.fstrings)

\* if __name__ == "__main__": main()
main_of(g, m, e) ==
    CASE g = "drizzle-migration-guard" -> drizzle_main(m, e)
      [] g = "import-path-validator" -> import_main(m, e)
      [] g = "sveltekit-route-validator" -> route_main(m, e)
      [] g = "no-secrets" -> secrets_main(m, e)
      [] g = "permission-auto-approve" -> permission_main(m, e)
      [] g = "supabase-rls-reminder" -> rls_main(m, e)
      [] g = "command-logger" -> logger_main(m, e)
      [] g = "web-search-enhancer" -> websearch_main(m, e)
      [] g = "sveltekit-perf-guard" -> perf_main(m, e)
      [] g = "dependency-audit" -> audit_main(m, e)
      [] g = "auto-format" -> format_main(m, e)
      [] OTHER -> stop_main(m, e)

\* a Write / Edit / MultiEdit message whose path and content are strings
IsEdit(m) ==
    /\ m.json = "dict" /\ m.tool_input = "dict"
    /\ m.tool_name.v \in {"Write", "Edit", "MultiEdit"}
    /\ file_path_of(m).t = "str" /\ content_of(m).t = "str"

\* the messages of all the error-severity rules of a script's catalogs that match
\* the payload of the message, in catalog order, whether or not the script's loop
\* reaches them
error_rules_matched(g, m) ==
    IF g = "permission-auto-approve"
    THEN IF m.json = "dict" /\ m.tool_input = "dict" /\ m.command.t = "str"
         THEN LET hits == matching_rules(PERMISSION_DANGEROUS_PATTERNS, m.command.v, TRUE)
              IN  [i \in 1..Len(hits) |-> hits[i].message]
         ELSE <<>>
    \* the route rules on the path need no content
    ELSE IF /\ g = "sveltekit-route-validator" /\ m.json = "dict" /\ m.tool_input = "dict"
            /\ m.tool_name.v \in {"Write", "Edit", "MultiEdit"}
            /\ file_path_of(m).t = "str"
    THEN analyze_route(file_path_of(m).v,
                       IF content_of(m).t = "str" THEN content_of(m).v ELSE <<>>).errors
    ELSE IF ~IsEdit(m) THEN <<>>
    ELSE LET p == file_path_of(m).v
             c == content_of(m).v
         IN  CASE g = "drizzle-migration-guard" ->
                    IF is_migration_file(p)
                    THEN messages_at(matching_rules(DANGEROUS_PATTERNS, c, TRUE), {"error"})
                    ELSE IF is_schema_file(p)
                    THEN messages_at(matching_rules(SCHEMA_WARNINGS, c, TRUE), {"error"})
                    ELSE <<>>
               [] g = "import-path-validator" ->
                    IF is_relevant_file(p)
                    THEN messages_at(matching_rules(IMPORT_PATTERNS, c, FALSE), {"error"})
                    ELSE <<>>
               [] g = "no-secrets" ->
                    IF ~is_ignored(p)
                    THEN LET hits == matching_rules(SECRET_PATTERNS, c, FALSE)
                         IN  [i \in 1..Len(hits) |-> hits[i].message]
                    ELSE <<>>
               [] OTHER -> <<>>

\* a valid JSON message with a missing field or a value of the wrong type
Defective(m) ==
    \/ m.json = "list"
    \/ /\ m.json = "dict"
       /\ \/ m.tool_name.t = "absent"
          \/ m.tool_input \in {"absent", "null"}
          \/ m.tool_response = "null"
          \/ \E f \in {"file_path", "path", "content", "new_string", "command", "query"} :
                m[f].t \in {"null", "num"}

severity_rank(sev) == CASE sev = "error" -> 1 [] sev = "warn" -> 2 [] OTHER -> 3

\* the lines of a stream that carry a finding are in the order error, warn, info
severity_ordered(stream) ==
    LET found == SelectSeq(emitted_items(stream),
                           LAMBDA it : it.sev \in {"error", "warn", "info"})
    IN  \A i, j \in 1..Len(found) :
            i < j => severity_rank(found[i].sev) <= severity_rank(found[j].sev)

\* the findings of the evaluation, the three lists of analyze_file() in one
all_findings == result.errors \o result.warnings \o result.info

\* list.count(message)
occurrences(message, list) == Cardinality({i \in 1..Len(list) : list[i] = message})

\* what the host reads as the answer: the exit status and the JSON objects
decision_of(status, out) == <<status, SelectSeq(out, LAMBDA it : it.kind # "text")>>

(***************************************************************************)
(* The same action evaluated again                                         *)
(*                                                                         *)
(* The host starts the script once per intercepted action; the same action *)
(* can come again.  The new process finds the log file as the earlier ones *)
(* left it.  Between two evaluations the clock moves on and the log file   *)
(* can become writable or unwritable; files and tools stay as they are.    *)
(***************************************************************************)
\* Evaluations of one action.
MaxEvaluations == 2

\* datetime.now().year of a later evaluation
later_years(year) == {y \in {2026, 2027, 2040} : y >= year}

\* what a later evaluation can find where an earlier one found e
later_envs(e) ==
    LET logs == {[e EXCEPT !.logOk = ok] : ok \in BOOLEAN}
    IN  IF "year" \in DOMAIN e
        THEN {[l EXCEPT !.year = y] : l \in logs, y \in later_years(e.year)}
        ELSE logs

\* what the evaluation that has just ended leaves to compare
Evaluated ==
    [env |-> env, exit |-> exitStatus, stdout |-> stdout, stderr |-> stderr,
     raised |-> raised, findings |-> result]

\* the script is started again on the same message and runs main() to the end
Again ==
    /\ pc = "exited"
    /\ Len(earlier) + 1 < MaxEvaluations
    /\ \E e \in later_envs(env) :
        \E o \in {main_of(guard, input, e)} :
            /\ earlier' = Append(earlier, Evaluated)
            /\ env' = e
            /\ stdout' = o.stdout
            /\ stderr' = o.stderr
            /\ exitStatus' = o.exit
            /\ raised' = o.raised
            /\ logFile' = logFile \o o.log
            /\ result' = o.findings
            /\ UNCHANGED <<guard, pc, input, calls, procs, appended>>

NextRepeat == Next \/ Again

SpecRepeat == Init /\ [][NextRepeat]_vars

\* an earlier evaluation gave the findings and the output of this one
same_evaluation(ev) ==
    /\ ev.findings = result
    /\ ev.exit = exitStatus
    /\ ev.stdout = stdout
    /\ ev.stderr = stderr
    /\ ev.raised = raised

(***************************************************************************)
(* Waiting for external commands                                           *)
(*                                                                         *)
(* subprocess.run blocks main() until the command returns or, when a       *)
(* timeout is passed, until the timeout expires. The steps of one          *)
(* evaluation are: main() starts (pc "running"), each external command it  *)
(* starts returns or is stopped by its timeout, and the process exits.     *)
(***************************************************************************)
\* the guards that start external commands
Runners == {"dependency-audit", "auto-format", "stop-verification"}

\* one subprocess.run call: timeout is <<seconds>>, or <<>> when no timeout is passed
Call(cmd, timeout) == [cmd |-> cmd, timeout |-> timeout]

\* dependency-audit.py: main() reaches run_audit, whose two log() calls succeed
audit_reached(m, e) ==
    /\ m.json = "dict"
    /\ m.tool_name.v \in {"Write", "Edit"}
    /\ m.tool_input # "null"
    /\ LET file_path == file_path_of(IF m.tool_input = "dict" THEN m ELSE BaseMsg)
       IN  /\ truthy_path(file_path)
           /\ file_path.t = "str"
           /\ name_of(file_path.v) \in DOMAIN DEPENDENCY_FILES
    /\ e.logOk

\* run_audit(): `which` is run without a timeout (line 77), the audit command
\* with timeout=60 (lines 81-87); a binary that cannot be executed starts nothing
audit_calls(m, e) ==
    IF ~audit_reached(m, e) \/ e.which = "notfound" THEN <<>>
    ELSE <<Call("which", <<>>)>>
            \o (IF e.which = "found" /\ e.run # "notfound"
                THEN <<Call("audit", <<60>>)>> ELSE <<>>)

\* auto-format.py: main() reaches format_file with a string path
format_reached(m) ==
    /\ m.json = "dict"
    /\ m.tool_name.v \in {"Edit", "MultiEdit", "Write"}
    /\ m.tool_response # "null"
    /\ ~(m.tool_response = "dict" /\ m.success = "false")
    /\ m.tool_input # "null"
    /\ LET file_path == file_path_of(IF m.tool_input = "dict" THEN m ELSE BaseMsg)
       IN  truthy_path(file_path) /\ file_path.t = "str"

\* format_file(): the formatter is run with timeout=30 (lines 101-108);
\* shutil.which is a lookup on PATH and starts no process
format_calls(m, e) ==
    IF ~format_reached(m) THEN <<>>
    ELSE LET path == file_path_of(IF m.tool_input = "dict" THEN m ELSE BaseMsg).v
         IN  IF /\ e.exists
                /\ ~should_skip(path)
                /\ path.ext \in DOMAIN FORMATTERS
                /\ e.installed \/ FORMATTERS[path.ext].check_cmd = "prettier"
                /\ e.run # "notfound"
             THEN <<Call("format", <<30>>)>>
             ELSE <<>>

\* run_verifications(): every check of the project is run with its timeout
stop_calls(e) ==
    LET one(key, name, timeout) ==
            IF e.root /\ key \in e.checks /\ e.ran[name].run # "notfound"
            THEN <<Call(name, <<timeout>>)>> ELSE <<>>
    IN  one("typescript", "TypeScript", 90) \o one("svelte", "Svelte", 90)
            \o one("python", "Python (mypy)", 60) \o one("rust", "Rust", 120)

\* the messages and environments of a guard that starts external commands,
\* with the commands the evaluation starts
launches(g) ==
    CASE g = "dependency-audit" ->
            {[m |-> m, e |-> e, calls |-> audit_calls(m, e)] :
                m \in AuditInputs, e \in AuditEnvs}
      [] g = "auto-format" ->
            {[m |-> m, e |-> e, calls |-> format_calls(m, e)] :
                m \in FormatInputs, e \in FormatEnvs}
      [] g = "stop-verification" ->
            {[m |-> m, e |-> e, calls |-> stop_calls(e)] :
                m \in StopInputs, e \in StopEnvs}
      [] OTHER -> {}

\* what the environment says the running command does
call_outcome(g, e, call) ==
    IF g = "stop-verification" THEN e.ran[call.cmd].run
    ELSE IF call.cmd = "which" THEN "returned"
    ELSE e.run

\* the environment in which the running command was stopped by its timeout
timed_out(g, e, call) ==
    IF g = "stop-verification" THEN [e EXCEPT !.ran[call.cmd].run = "timeout"]
    ELSE [e EXCEPT !.run = "timeout"]

Launch ==
    /\ pc = "ready"
    /\ \E l \in launches(guard) :
          /\ input' = l.m
          /\ env' = l.e
          /\ calls' = l.calls
    /\ pc' = "running"
    /\ UNCHANGED <<guard, stdout, stderr, exitStatus, raised, logFile, result, earlier,
                   procs, appended>>

\* the running command returns, or ends with an error, by itself
Returns ==
    /\ pc = "running"
    /\ calls # <<>>
    /\ call_outcome(guard, env, Head(calls)) # "timeout"
    /\ calls' = Tail(calls)
    /\ UNCHANGED <<guard, pc, input, env, stdout, stderr, exitStatus, raised, logFile,
                   result, earlier, procs, appended>>

\* a command stopped by its timeout is started again, this time without one
ExpiresAndRetries ==
    /\ pc = "running"
    /\ calls # <<>>
    /\ Head(calls).timeout # <<>>
    /\ env' = timed_out(guard, env, Head(calls))
    /\ calls' = <<Call(Head(calls).cmd, <<>>)>> \o Tail(calls)
    /\ UNCHANGED <<guard, pc, input, stdout, stderr, exitStatus, raised, logFile, result,
                   earlier, procs, appended>>

\* the timeout passed to subprocess.run expires: the command is killed and
\* TimeoutExpired is raised
Expires ==
    /\ pc = "running"
    /\ calls # <<>>
    /\ Head(calls).timeout # <<>>
    /\ env' = timed_out(guard, env, Head(calls))
    /\ calls' = Tail(calls)
    /\ UNCHANGED <<guard, pc, input, stdout, stderr, exitStatus, raised, logFile, result,
                   earlier, procs, appended>>

\* no command is left to wait for: main() runs to its end
Finish ==
    /\ pc = "running"
    /\ calls = <<>>
    /\ \E o \in {main_of(guard, input, env)} :
          /\ stdout' = o.stdout
          /\ stderr' = o.stderr
          /\ exitStatus' = o.exit
          /\ raised' = o.raised
          /\ logFile' = logFile \o o.log
          /\ result' = o.findings
    /\ pc' = "exited"
    /\ UNCHANGED <<guard, input, env, earlier, calls, procs, appended>>

InitLive == Init /\ guard \in Runners

NextLive == Launch \/ Returns \/ Expires \/ Finish

\* the interpreter keeps running main(), and a timeout that was set expires; a
\* command that was started owes the script nothing
SpecLive ==
    InitLive /\ [][NextLive]_vars /\ WF_vars(Expires) /\ WF_vars(Finish)

(***************************************************************************)
(* Two evaluations side by side                                            *)
(*                                                                         *)
(* The host starts one process per intercepted action and does not wait    *)
(* for one to end before it starts the next. Every log() call opens the    *)
(* log file in append mode, writes one line and closes it; nothing is held *)
(* between two calls, so the lines of two processes reach the file in any  *)
(* order that keeps the order of each process.                             *)
(***************************************************************************)
\* the guards that write a header line and one line per finding
Loggers == {"drizzle-migration-guard", "import-path-validator", "sveltekit-route-validator"}

\* the Write messages the two processes receive
PairInputs(g) ==
    CASE g = "drizzle-migration-guard" ->
            {[BaseMsg EXCEPT !.file_path = PStr(MkPath(<<"migrations">>, "0001_init", ".sql")),
                             !.content = TStr(c)] :
                c \in {<<"DROP TABLE accounts;">>, <<"SELECT 1;">>,
                       <<"ALTER TABLE t DROP COLUMN c;", "DROP INDEX old_idx;">>}}
      [] g = "import-path-validator" ->
            {[BaseMsg EXCEPT !.file_path = PStr(MkPath(<<"packages", "db", "src">>, "b", ".ts")),
                             !.content = TStr(c)] :
                c \in {<<"import c from 'src/lib/c'">>, <<"import e from '$lib/e'">>,
                       <<"import * as d from 'x'", "import b from '../../../lib/util'">>}}
      [] g = "sveltekit-route-validator" ->
            {[BaseMsg EXCEPT !.file_path =
                                PStr(MkPath(<<"src", "routes", "about">>, "+page", ".svelte")),
                             !.content = TStr(c)] :
                c \in {<<"export const load = async () => {}">>, <<"<h1>hi</h1>">>,
                       <<"import { KEY } from '$env/static/private'">>}}
      [] OTHER -> {}

\* process p reads its message and evaluates it; the lines it will log are the
\* log() calls of main() in their order
Evaluate(p) ==
    /\ procs[p].pc = "ready"
    /\ \E m \in PairInputs(guard) : \E o \in {main_of(guard, m, NoEnv)} :
          procs' = [procs EXCEPT ![p] = [pc |-> "logging", todo |-> o.log]]
    /\ UNCHANGED <<guard, pc, input, env, stdout, stderr, exitStatus, raised, logFile,
                   result, earlier, calls, appended>>

\* one log() call of process p: open(LOG_FILE, "a"), write the line, close
AppendLine(p) ==
    /\ procs[p].pc = "logging"
    /\ procs[p].todo # <<>>
    /\ appended' = Append(appended, [by |-> p, line |-> Head(procs[p].todo)])
    /\ logFile' = Append(logFile, Head(procs[p].todo))
    /\ procs' = [procs EXCEPT ![p].todo = Tail(@)]
    /\ UNCHANGED <<guard, pc, input, env, stdout, stderr, exitStatus, raised, result,
                   earlier, calls>>

\* process p has made its last log() call and exits
Leave(p) ==
    /\ procs[p].pc = "logging"
    /\ procs[p].todo = <<>>
    /\ procs' = [procs EXCEPT ![p].pc = "exited"]
    /\ UNCHANGED <<guard, pc, input, env, stdout, stderr, exitStatus, raised, logFile,
                   result, earlier, calls, appended>>

InitPair == Init /\ guard \in Loggers

NextPair == \E p \in Procs : Evaluate(p) \/ AppendLine(p) \/ Leave(p)

SpecPair == InitPair /\ [][NextPair]_vars

(***************************************************************************)
(* Properties                                                              *)
(***************************************************************************)

\* C1: when drizzle-migration-guard, import-path-validator, sveltekit-route-validator
\* or no-secrets is given a Write / Edit / MultiEdit whose in-scope payload matches
\* at least one error-severity rule, it exits 2, whatever other rules match (the log
\* file is writable, so that nothing but the rules decides)
C1_ErrorMatchBlocks ==
    (/\ Exited
     /\ guard \in {"drizzle-migration-guard", "import-path-validator",
                   "sveltekit-route-validator", "no-secrets"}
     /\ env.logOk
     /\ error_rules_matched(guard, input) # <<>>)
        => exitStatus = 2

\* C2: exit status 2 or a JSON deny comes only with an error finding and only from
\* a script whose hook event can refuse the action; with warn / info findings alone
\* the script exits 0 without a deny; supabase-rls-reminder and command-logger never
\* block
C2_BlockOnlyOnErrorAndCapable ==
    Exited =>
        /\ Blocked => (result.errors # <<>> /\ blocking_capable(guard))
        /\ (/\ raised = "none"
            /\ result.errors = <<>>
            /\ (result.warnings # <<>> \/ result.info # <<>>))
                => (exitStatus = 0 /\ ~Denied)
        /\ guard \in {"supabase-rls-reminder", "command-logger"} => ~Blocked

\* C3: on input that is not valid JSON every script exits 0 with nothing raised,
\* nothing found and nothing blocked
C3_CorruptInputIsNoOp ==
    (Exited /\ Healthy /\ input.json = "corrupt")
        => (raised = "none" /\ exitStatus = 0 /\ ~Blocked /\ result = NoFindings)

\* C4: on valid JSON with a missing field or a value of the wrong type every script
\* ends without raising, with exit status 0 and without a deny
C4_DefectiveInputIsAllowed ==
    (Exited /\ Healthy /\ Defective(input))
        => (raised = "none" /\ exitStatus = 0 /\ ~Denied)

\* C5: when the log file cannot be written, the script raises nothing and answers
\* with the exit status and the JSON objects of the same run with a writable log
C5_LogFailureChangesNothing ==
    Exited =>
        LET o == main_of(guard, input, [env EXCEPT !.logOk = TRUE])
        IN  /\ raised = o.raised
            /\ decision_of(exitStatus, stdout) = decision_of(o.exit, o.stdout)

\* C6: a script that answers by exit status exits 0 or 2 and nothing else
C6_ExitStatusZeroOrTwo ==
    (Exited /\ guard \in ExitStatusGuards) => exitStatus \in {0, 2}

\* C7: in what a script prints, on either stream and inside a JSON message, every
\* error message comes before every warning and every warning before every info
\* message, whatever the order of the rules in the catalog
C7_SeverityOrder ==
    Exited => (severity_ordered(stderr) /\ severity_ordered(stdout))

\* a blocked route file whose warning rule is declared before its error rule
C7_Witness ==
    /\ Exited
    /\ guard = "sveltekit-route-validator"
    /\ exitStatus = 2
    /\ \E a, b \in 1..Len(CONTENT_PATTERNS) :
        /\ a < b
        /\ CONTENT_PATTERNS[a].level = "warn"
        /\ CONTENT_PATTERNS[b].level = "error"
        /\ Item("warn", CONTENT_PATTERNS[a].message) \in range(stderr)
        /\ Item("error", CONTENT_PATTERNS[b].message) \in range(stderr)

\* C8: the message of every finding of drizzle-migration-guard, import-path-validator,
\* sveltekit-route-validator and no-secrets, info ones included, is on stderr; a
\* migration whose only finding is DROP INDEX exits 0 with that message on stderr
C8_EveryFindingOnStderr ==
    (/\ Exited
     /\ raised = "none"
     /\ guard \in {"drizzle-migration-guard", "import-path-validator",
                   "sveltekit-route-validator", "no-secrets"})
        => \A message \in range(result.errors \o result.warnings \o result.info) :
                carried(message, texts(emitted_items(stderr)))

C10_NoTextOnStdout ==
    (Exited /\ guard \in ExitStatusGuards /\ exitStatus \in {0, 2})
        => \A i \in 1..Len(stdout) : stdout[i].kind # "text"

\* C11: within one evaluation no rule contributes more than one finding: no
\* message stands twice in the findings, however often its pattern matches (the
\* messages of the rules of a catalog are pairwise different)
C11_OneFindingPerRule ==
    (Exited /\ raised = "none")
        => \A message \in range(all_findings) : occurrences(message, all_findings) = 1

C13_RewriteExcludesBlock ==
    Exited =>
        /\ ~(Rewritten /\ Blocked)
        /\ guard = "web-search-enhancer" => (exitStatus # 2 /\ ~Denied)
        /\ guard # "web-search-enhancer" => ~Rewritten

\* a search query that was rewritten
C13_Witness ==
    /\ Exited
    /\ guard = "web-search-enhancer"
    /\ Rewritten
    /\ exitStatus = 0

IsSearch(m) ==
    /\ m.json = "dict" /\ m.tool_input = "dict"
    /\ m.tool_name = NStr("WebSearch")
    /\ m.query.t = "str" /\ m.query.v # EmptyQuery

verdicts == SelectSeq(stdout, LAMBDA it : it.kind = "json")

\* C15: a script prints at most one JSON verdict; its "decision" value is "allow" or
\* "deny" and nothing else, and a "deny" comes with a "message"
C15_DecisionAllowOrDeny ==
    Exited =>
        /\ Len(verdicts) <= 1
        /\ \A i \in 1..Len(verdicts) :
            /\ verdicts[i].decision \in {"allow", "deny"}
            /\ verdicts[i].decision = "deny" => "message" \in verdicts[i].keys

\* a Bash permission request whose command is a string
IsBashRequest(m) ==
    m.json = "dict" /\ m.tool_input = "dict" /\ m.tool_name = NStr("Bash")
    /\ m.command.t = "str"

\* some dangerous pattern of the permission guard is found in the command
is_dangerous(command) ==
    \E i \in 1..Len(PERMISSION_DANGEROUS_PATTERNS) :
        re_search(PERMISSION_DANGEROUS_PATTERNS[i].pattern, command, TRUE)

\* C16: in the permission guard a Bash command in which a dangerous pattern is
\* found is answered with the single verdict deny carrying a message, whether or
\* not it starts with a safe prefix, and no Bash command that is answered with
\* allow holds a dangerous pattern
C16_DangerousBeforeSafePrefix ==
    (Exited /\ guard = "permission-auto-approve" /\ IsBashRequest(input)) =>
        /\ is_dangerous(input.command.v) =>
              /\ Len(stdout) = 1
              /\ stdout[1].kind = "json"
              /\ stdout[1].decision = "deny"
              /\ "message" \in stdout[1].keys
              /\ stdout[1].lines # <<>>
              /\ exitStatus = 0
        /\ (\E i \in 1..Len(stdout) :
                stdout[i].kind = "json" /\ stdout[i].decision = "allow")
              => ~is_dangerous(input.command.v)

\* a command that starts with the safe prefix "echo " and redirects into /etc/
\* was denied
C16_Witness ==
    /\ Exited
    /\ guard = "permission-auto-approve"
    /\ IsBashRequest(input)
    /\ is_safe_bash_command(input.command.v)
    /\ is_dangerous(input.command.v)
    /\ Denied

\* what subprocess.run does when the binary is absent or the run times out
Unavailable == {"timeout", "notfound"}

\* the evaluation started an external checker that was absent or timed out
checker_unavailable ==
    CASE guard = "stop-verification" ->
            /\ env.root
            /\ \E k \in env.checks :
                  check_of(k) \in CheckNames /\ env.ran[check_of(k)].run \in Unavailable
      [] guard = "dependency-audit" ->
            /\ stdout # <<>> /\ raised = "none"
            /\ \/ env.which \in {"missing", "notfound"}
               \/ env.run \in Unavailable
      [] guard = "auto-format" ->
            /\ logFile # <<>> \/ raised = "OSError"
            /\ env.exists
            /\ ~env.installed \/ env.run \in Unavailable
      [] OTHER -> FALSE

\* C17: when an external checker is absent or its run times out the evaluation
\* ends with the allow outcome, exit status 0, and nothing it emits about the
\* check is at error level
C17_UnavailableCheckerAllows ==
    (Exited /\ checker_unavailable) =>
        /\ exitStatus = 0
        /\ \A i \in 1..Len(stderr) : stderr[i].sev # "error"

\* C18: an evaluation that has started ends, even when an external command it
\* started never returns
C18_EvaluationTerminates == (pc = "running") ~> (pc = "exited")

\* C19: when two evaluations of a guard run side by side, the lines each one
\* appends to the log stay together: no line of the other evaluation stands
\* between two lines of the same evaluation
C19_RecordsContiguous ==
    \A i \in 1..Len(appended) : \A k \in i..Len(appended) :
        appended[i].by = appended[k].by =>
            \A j \in i..k : appended[j].by = appended[i].by

\* C20: the guards that run after the tool, auto-format, dependency-audit and
\* sveltekit-perf-guard, end with exit status 0 whatever the message and
\* whatever their analysis finds
C20_PostToolUseExitsZero ==
    (Exited /\ guard \in {"auto-format", "dependency-audit", "sveltekit-perf-guard"}) =>
        exitStatus = 0

\* the messages of the rules of a guard's catalog, at one severity, whose pattern
\* is found in the payload of an in-scope message, in catalog order, whether or
\* not the guard's loop reaches them; the secret patterns carry no severity and
\* count as errors
rules_matched(g, m, level) ==
    IF ~IsEdit(m) THEN <<>>
    ELSE LET p == file_path_of(m).v
             c == content_of(m).v
         IN  CASE g = "drizzle-migration-guard" ->
                    IF is_migration_file(p)
                    THEN messages_at(matching_rules(DANGEROUS_PATTERNS, c, TRUE), {level})
                    ELSE IF is_schema_file(p)
                    THEN messages_at(matching_rules(SCHEMA_WARNINGS, c, TRUE), {level})
                    ELSE <<>>
               [] g = "import-path-validator" ->
                    IF is_relevant_file(p)
                    THEN messages_at(matching_rules(IMPORT_PATTERNS, c, FALSE), {level})
                    ELSE <<>>
               [] g = "no-secrets" ->
                    IF ~is_ignored(p) /\ m.tool_name.v \in {"Write", "Edit"} /\ level = "error"
                    THEN LET hits == matching_rules(SECRET_PATTERNS, c, FALSE)
                         IN  [i \in 1..Len(hits) |-> hits[i].message]
                    ELSE <<>>
               [] OTHER -> <<>>

\* the messages of the catalog of guard g
catalog_messages(g) ==
    LET catalog == CASE g = "drizzle-migration-guard" -> DANGEROUS_PATTERNS \o SCHEMA_WARNINGS
                     [] g = "import-path-validator" -> IMPORT_PATTERNS
                     [] g = "no-secrets" -> SECRET_PATTERNS
                     [] OTHER -> <<>>
    IN  {catalog[i].message : i \in 1..Len(catalog)}

\* the findings of a list that come from the catalog of guard g
from_catalog(g, list) == SelectSeq(list, LAMBDA message : message \in catalog_messages(g))

\* C21: the findings a guard draws from its catalog are, at each severity, the
\* messages of exactly the rules whose pattern is found in the payload, in the
\* order the catalog declares them; no rule is skipped because an earlier one
\* matched
C21_FindingsAreMatchedRulesInOrder ==
    (/\ Exited
     /\ raised = "none"
     /\ guard \in {"drizzle-migration-guard", "import-path-validator", "no-secrets"}
     /\ IsEdit(input))
        => /\ from_catalog(guard, result.errors) = rules_matched(guard, input, "error")
           /\ from_catalog(guard, result.warnings) = rules_matched(guard, input, "warn")
           /\ from_catalog(guard, result.info) = rules_matched(guard, input, "info")

\* the line of the alphabet that differs from a line in letter case only; a line
\* without such a twin stands for itself
case_twin(line) ==
    CASE line = "DROP TABLE accounts;" -> "drop table accounts;"
      [] line = "drop table accounts;" -> "DROP TABLE accounts;"
      [] line = "password = 'hunter2hunter2'" -> "PASSWORD = 'hunter2hunter2'"
      [] line = "PASSWORD = 'hunter2hunter2'" -> "password = 'hunter2hunter2'"
      [] OTHER -> line

recase(field) ==
    IF field.t = "str"
    THEN [field EXCEPT !.v = [i \in 1..Len(field.v) |-> case_twin(field.v[i])]]
    ELSE field

\* the message with the letter case of its payload changed
recased(m) == [m EXCEPT !.content = recase(@), !.new_string = recase(@)]

\* C22: a payload and the payload that differs from it in letter case only give
\* the same findings and the same decision, in every guard that matches rules
\* against the content
C22_LetterCaseIsIgnored ==
    (/\ Exited
     /\ guard \in {"drizzle-migration-guard", "import-path-validator",
                   "sveltekit-route-validator", "no-secrets"})
        => \A o \in {main_of(guard, recased(input), env)} :
              /\ o.findings = result
              /\ o.exit = exitStatus
              /\ o.stderr = stderr

\* the tool names a guard covers
covered_tools(g) ==
    IF g = "no-secrets" THEN {"Write", "Edit"} ELSE {"Write", "Edit", "MultiEdit"}

\* the path has the shape the rule set of the guard applies to
in_shape(g, p) ==
    CASE g = "drizzle-migration-guard" -> is_migration_file(p) \/ is_schema_file(p)
      [] g = "import-path-validator" -> p.ext \in RELEVANT_EXTENSIONS
      [] g = "sveltekit-route-validator" -> is_route_file(p)
      [] g = "no-secrets" -> ~is_ignored(p)
      [] OTHER -> TRUE

\* the guard does not cover the tool, or the path is a string without the shape
OutOfScope(g, m) ==
    /\ m.json = "dict"
    /\ \/ m.tool_name.v \notin covered_tools(g)
       \/ /\ m.tool_input = "dict"
          /\ file_path_of(m).t = "str"
          /\ ~in_shape(g, file_path_of(m).v)

ScopedGuards ==
    {"drizzle-migration-guard", "import-path-validator", "sveltekit-route-validator",
     "no-secrets"}

\* C23: when the tool is not one the guard covers, or the path has not the shape
\* its rules apply to, the guard exits 0 without searching any pattern: nothing is
\* found, nothing raised, nothing written to either stream or to the log,
\* whatever the content holds
C23_OutOfScopeIsSilent ==
    (Exited /\ guard \in ScopedGuards /\ OutOfScope(guard, input))
        => /\ exitStatus = 0
           /\ raised = "none"
           /\ result = NoFindings
           /\ stdout = <<>>
           /\ stderr = <<>>
           /\ logFile = <<>>

\* a Markdown file whose content holds an import that the rules refuse went
\* through the import guard unexamined
C23_Witness ==
    /\ Exited
    /\ guard = "import-path-validator"
    /\ IsEdit(input)
    /\ input.tool_name.v = "Write"
    /\ file_path_of(input).v.ext = ".md"
    /\ rules_matched(guard, [input EXCEPT !.file_path = PStr(MkPath(<<"packages", "db", "src">>, "b", ".ts")), !.path = PAbsent], "error") # <<>>
    /\ exitStatus = 0
    /\ logFile = <<>>

\* a message the guard covers, for a path of the shape its rules apply to, with a
\* non-empty content in which no pattern of the catalog is found
MatchesNoRule(g, m) ==
    /\ IsEdit(m)
    /\ m.tool_name.v \in covered_tools(g)
    /\ in_shape(g, file_path_of(m).v)
    /\ file_path_of(m).v # EmptyPath
    /\ content_of(m).v # <<>>
    /\ \A level \in {"error", "warn", "info"} : rules_matched(g, m, level) = <<>>

\* C24: an in-scope invocation whose payload matches no rule of the catalog is
\* allowed: exit status 0, no message on either stream, no finding, and a log
\* record that holds no finding line
C24_NoMatchIsAllowedSilently ==
    (/\ Exited
     /\ guard \in {"drizzle-migration-guard", "import-path-validator", "no-secrets"}
     /\ MatchesNoRule(guard, input))
        => /\ exitStatus = 0
           /\ stdout = <<>>
           /\ stderr = <<>>
           /\ result = NoFindings
           /\ Len(logFile) <= 1

\* the run of an external command did not end well
failed_run(r) == r.run \in {"timeout", "notfound", "error"} \/ r.returncode # 0

\* the checks of stop-verification whose command did not end well
failed_checks(e) == {c \in CheckNames : failed_run(e.ran[c])}

\* the number of items of one severity in a stream
count_of(sev, stream) == Cardinality({i \in 1..Len(stream) : stream[i].sev = sev})

\* auto-format reached format_file with a file that exists, is not excluded and
\* has a formatter
format_attempted(m, e) ==
    /\ format_reached(m)
    /\ e.exists
    /\ LET path == file_path_of(IF m.tool_input = "dict" THEN m ELSE BaseMsg).v
       IN  ~should_skip(path) /\ path.ext \in DOMAIN FORMATTERS

\* the formatter of the file is looked for with shutil.which and not found
formatter_missing(m, e) ==
    LET path == file_path_of(IF m.tool_input = "dict" THEN m ELSE BaseMsg).v
    IN  ~e.installed /\ FORMATTERS[path.ext].check_cmd # "prettier"

\* no command stands twice in the list of the commands to wait for, and a step
\* of a running evaluation leaves the list alone or ends its first command
NeverRetried ==
    /\ [](\A i, j \in 1..Len(calls) : calls[i].cmd = calls[j].cmd => i = j)
    /\ [][pc = "running" => (calls' = calls \/ calls' = Tail(calls))]_vars

excerpt_sizes(stream) ==
    {stream[i].size : i \in {j \in 1..Len(stream) : "size" \in DOMAIN stream[j]}}

\* the longest piece of command output a script keeps: result.stdout[-1000:]
LongestExcerpt == 1000

\* C26: every message and log record taken from the stdout or stderr of an
\* external command holds at most a fixed number of its characters, however much
\* the command wrote
C26_ToolOutputIsTruncated ==
    Exited =>
        \A n \in excerpt_sizes(stdout) \cup excerpt_sizes(stderr) \cup excerpt_sizes(logFile) :
            n <= LongestExcerpt

\* the evaluation reached the analysis: a message of a covered tool with a content
\* for a path of the shape the guard handles (auto-format: a file it has a
\* formatter for)
InScope(g, m, e) ==
    IF g = "auto-format" THEN format_attempted(m, e)
    ELSE /\ IsEdit(m)
         /\ m.tool_name.v \in covered_tools(g)
         /\ file_path_of(m).v # EmptyPath
         /\ in_shape(g, file_path_of(m).v)
         /\ content_of(m).v # <<>>

\* the lines of the log that are neither the header nor the line of a finding
outcome_lines(log, found) ==
    LET all == found.errors \o found.warnings \o found.info
    IN  {i \in 2..Len(log) : \A k \in 1..Len(all) : log[i].text # "  " \o all[k]}

\* C27: every in-scope evaluation leaves a record in the log of its guard: each
\* line starts with a timestamp, every finding has its line, and a line tells the
\* outcome, whether the action was allowed, allowed with warnings or blocked
C27_LogHoldsStampFindingsOutcome ==
    (/\ Exited
     /\ guard \in {"drizzle-migration-guard", "sveltekit-route-validator", "auto-format"}
     /\ InScope(guard, input, env))
        => /\ logFile # <<>>
           /\ \A i \in 1..Len(logFile) : logFile[i].stamped
           /\ LET all == result.errors \o result.warnings \o result.info
              IN  \A k \in 1..Len(all) :
                     \E i \in 1..Len(logFile) : logFile[i].text = "  " \o all[k]
           /\ outcome_lines(logFile, result) # {}

\* the tool reported that the action failed: exitCode, when tool_response has
\* one, decides; otherwise success does
ReportedFailed(m) ==
    /\ m.json = "dict"
    /\ m.tool_response = "dict"
    /\ IF m.exitCode # "absent" THEN m.exitCode = "nonzero" ELSE m.success = "false"

\* the external commands the evaluation of a post-action guard starts
commands_started(g, m, e) ==
    CASE g = "dependency-audit" -> audit_calls(m, e)
      [] g = "auto-format" -> format_calls(m, e)
      [] OTHER -> <<>>

\* C28: a guard that runs after the action analyses nothing when the action is
\* reported as failed: it starts no external command, writes nothing to its log
\* or to the streams, and exits 0
C28_FailedActionIsNotAnalysed ==
    (/\ Exited
     /\ guard \in {"auto-format", "sveltekit-perf-guard", "dependency-audit"}
     /\ ReportedFailed(input))
        => /\ exitStatus = 0
           /\ raised = "none"
           /\ commands_started(guard, input, env) = <<>>
           /\ logFile = <<>>
           /\ stdout = <<>>
           /\ stderr = <<>>

\* the message asks the secrets guard to block: a Write or Edit, for a path that
\* holds no ignored name, with a content (new_string when content is empty) in
\* which a secret pattern is found
holds_secret(m) ==
    /\ m.json = "dict"
    /\ m.tool_name.v \in {"Write", "Edit"}
    /\ m.tool_input = "dict"
    /\ file_path_of(m).t = "str" /\ ~is_ignored(file_path_of(m).v)
    /\ content_of(m).t = "str"
    /\ \E i \in 1..Len(SECRET_PATTERNS) :
          \E k \in 1..Len(content_of(m).v) :
             content_of(m).v[k] \in re_lines(SECRET_PATTERNS[i].pattern)

\* C29: for every input that parses as JSON the secrets guard exits 2 exactly when
\* the tool is Write or Edit, the path holds no ignored name and the content holds
\* a secret; in every other case it exits 0
C29_BlocksExactlySecrets ==
    (Exited /\ guard = "no-secrets" /\ input.json # "corrupt")
        => exitStatus = IF holds_secret(input) THEN 2 ELSE 0

\* the queries the guard printed as a rewrite
rewritten(out) == {out[i].query : i \in {j \in 1..Len(out) : out[j].kind = "rewrite"}}

\* C30: the rewritten query, given to the guard again in place of the original
\* one, is not rewritten a second time
C30_EnrichmentIsIdempotent ==
    (Exited /\ guard = "web-search-enhancer")
        => \A q \in rewritten(stdout) :
              rewritten(websearch_main([input EXCEPT !.query = QStr(q)], env).stdout) = {}

====
